---- MODULE Spec2Model ----
(***************************************************************************)
(* A model of package packet (github.com/mdlayher/packet): link-layer      *)
(* packet connections over a Linux AF_PACKET socket (packet_linux.go) or a *)
(* BSD capture device (packet_macos.go), behind the Conn facade            *)
(* (packet.go).                                                            *)
(*                                                                         *)
(* The module holds three specifications over one set of variables:       *)
(*   SpecHtons  the byte-order conversion htons, applied to every input    *)
(*   SpecAddr   the address codec toSockaddr / fromSockaddr                *)
(*   Spec       the life of one Conn on either driver                      *)
(* A specification leaves the variables of the other two at their idle     *)
(* values.                                                                 *)
(***************************************************************************)
EXTENDS Integers, Sequences, FiniteSets, TLC

VARIABLES
    hostLE,     \* the byte order of the build's GOARCH: TRUE = little endian
    hIn,        \* htons harness: the int handed to htons
    hRes,       \* htons harness: what htons(hIn) returned
    hBack,      \* htons harness: what htons(hRes.v) returned
    hPc,        \* htons harness: "in", "out" (converted), "back" (converted back)
    aIn,        \* codec harness: the net.Addr handed to toSockaddr
    aMeta,      \* codec harness: the Conn's ifIndex and protocol
    aEnc,       \* codec harness: what toSockaddr returned (sockaddr, error)
    aDec,       \* codec harness: what fromSockaddr returned for that sockaddr
    aPc,        \* codec harness: "in", "enc" (encoded), "dec" (decoded)
    goos,       \* the platform the package is built for
    cst,        \* the caller's Conn: "none", "open", "closed" (Close has returned)
    conn,       \* the fields of the Conn that Listen returned
    rtimeout,   \* the read deadline (ms), 0 = the zero time.Time: no deadline
    fd,         \* the descriptor Listen opened: "none", "open", "closed"
    kproto,     \* the protocol the OS primitive is bound to or filters on
    avail,      \* frames waiting in the OS primitive
    now,        \* the clock (ms)
    closedAt,   \* the time Close returned
    rpc,        \* BSD reader thread: "idle", "loop", "enter", "inread"
    rd,         \* BSD reader thread: locals of the ReadFrom in progress
    raw,        \* the caller holds a rawConn from SyscallConn
    kstat,      \* the packet socket's statistics (Linux), and what was delivered
    dirH,       \* direction harness: the build, the direction, the result
    fltH,       \* filter harness: the protocol, the programs, the frame, the verdict
    lsH,        \* establishment harness: the inputs of listen, the result, the device
    raceH,      \* device race: the devices' owners, each establishment's position
    muH,        \* deadline mutex: the holder, the stored deadline, each thread's position
    last        \* the operation that returned last, and what it returned

htonsVars == <<hostLE, hIn, hRes, hBack, hPc>>

addrVars == <<aIn, aMeta, aEnc, aDec, aPc>>

connVars == <<goos, cst, conn, rtimeout, fd, kproto, avail, now,
              closedAt, rpc, rd, raw, kstat, last>>

pureVars == <<dirH, fltH, lsH, raceH, muH>>

vars == <<htonsVars, addrVars, connVars, pureVars>>

(***************************************************************************)
(* The idle values of each harness: what its variables hold while another  *)
(* specification runs.                                                     *)
(***************************************************************************)
NoResult == [v |-> 0, err |-> "none"]

HtonsIdle ==
    /\ hostLE = TRUE
    /\ hIn = 0
    /\ hRes = NoResult
    /\ hBack = NoResult
    /\ hPc = "idle"

AddrIdle ==
    /\ aIn = <<>>
    /\ aMeta = <<>>
    /\ aEnc = <<>>
    /\ aDec = <<>>
    /\ aPc = "idle"

PureIdle ==
    /\ dirH = <<>>
    /\ fltH = <<>>
    /\ lsH = <<>>
    /\ raceH = <<>>
    /\ muH = <<>>

ConnIdle ==
    /\ goos = "linux"
    /\ cst = "idle"
    /\ kstat = <<>>
    /\ conn = <<>>
    /\ rtimeout = 0
    /\ fd = "none"
    /\ kproto = <<>>
    /\ avail = 0
    /\ now = 0
    /\ closedAt = 0
    /\ rpc = "idle"
    /\ rd = <<>>
    /\ raw = FALSE
    /\ last = <<>>

(***************************************************************************)
(* Machine integers.                                                       *)
(***************************************************************************)
\* math.MaxUint16
MaxUint16 == 65535

\* uint16(i) of a Go int: the low 16 bits of the two's complement value.
Uint16(i) == i % (MaxUint16 + 1)

\* a & b and a | b on non-negative integers.
RECURSIVE BitAnd(_, _)
BitAnd(a, b) ==
    IF a = 0 \/ b = 0 THEN 0
    ELSE (a % 2) * (b % 2) + 2 * BitAnd(a \div 2, b \div 2)

RECURSIVE BitOr(_, _)
BitOr(a, b) ==
    IF a = 0 THEN b
    ELSE IF b = 0 THEN a
    ELSE (IF a % 2 = 1 \/ b % 2 = 1 THEN 1 ELSE 0) + 2 * BitOr(a \div 2, b \div 2)

\* v << 8 and v >> 8 on a uint16: the shift left drops the bits above bit 15.
Shl8(v) == (v * 256) % (MaxUint16 + 1)
Shr8(v) == v \div 256

(***************************************************************************)
(* htons (packet_linux.go).  The result is the pair (uint16, error); the   *)
(* error is "nil" or the message of errors.New.                            *)
(***************************************************************************)
ErrRange == "packet: protocol value out of range"

\* A slip in the shift: the high byte of the input is moved by 4, not 8.
htonsShift4(i) ==
    IF i > MaxUint16
    THEN [v |-> 0, err |-> ErrRange]
    ELSE LET v == Uint16(i)
         IN  [v |-> BitOr(BitAnd(Shl8(v), 65280), v \div 16), err |-> "nil"]

htons(i) ==
    IF i > MaxUint16
    THEN [v |-> 0, err |-> ErrRange]
    ELSE LET v == Uint16(i)
         IN  [v |-> BitOr(BitAnd(Shl8(v), 65280), Shr8(v)), err |-> "nil"]

(***************************************************************************)
(* Errors.  An error value is a record: cause is the innermost error       *)
(* ("nil" for no error), syscall the name os.NewSyscallError attached to   *)
(* it ("" when the cause is no *os.SyscallError), and wraps the sequence   *)
(* of *net.OpError layers around it, outermost first.                      *)
(***************************************************************************)
NilErr == [wraps |-> <<>>, syscall |-> "", cause |-> "nil"]

\* a bare error value: syscall.Errno, errors.New, errUnimplemented
RawErr(cause) == [wraps |-> <<>>, syscall |-> "", cause |-> cause]

\* os.NewSyscallError(op, errno)
NewSyscallError(op, errno) == [wraps |-> <<>>, syscall |-> op, cause |-> errno]

IsNil(err) == err.cause = "nil" /\ err.wraps = <<>>

IsEINVAL(err) == err.cause = "EINVAL"

(***************************************************************************)
(* Addresses.  A net.Addr is modelled by its dynamic type (kind) and, for  *)
(* an *Addr, its HardwareAddr: nilHw says the slice is nil, hw holds its   *)
(* bytes.                                                                  *)
(***************************************************************************)
\* &Addr{HardwareAddr: hw}
MkAddr(hw) == [kind |-> "Addr", nilHw |-> FALSE, hw |-> hw]

\* &Addr{} : the HardwareAddr is a nil slice
AddrNilHw == [kind |-> "Addr", nilHw |-> TRUE, hw |-> <<>>]

\* a net.Addr of another dynamic type (or the nil interface)
AddrOther == [kind |-> "other", nilHw |-> TRUE, hw |-> <<>>]

\* a nil *Addr, as fromSockaddr returns for a nil sockaddr
AddrNil == [kind |-> "nil", nilHw |-> TRUE, hw |-> <<>>]

\* len(sa.Addr): the capacity of unix.SockaddrLinklayer's address array.
SockaddrAddrLen == 8

\* the array [8]byte{}
ZeroAddr == [k \in 1 .. SockaddrAddrLen |-> 0]

\* copy(dst[:], src) into a fixed array: the first min(len) bytes are replaced.
CopyInto(dst, src) ==
    [k \in 1 .. Len(dst) |-> IF k <= Len(src) THEN src[k] ELSE dst[k]]

\* uint8(n)
Uint8(n) == n % 256

NoSockaddr == [Ifindex |-> 0, Protocol |-> 0, Halen |-> 0, Addr |-> <<>>, nil |-> TRUE]

\* A slip: no capacity check, the address is clipped to the array.
toSockaddrClip(op, addr, ifIndex, protocol) ==
    IF addr.kind # "Addr" \/ addr.nilHw
    THEN [sa |-> NoSockaddr, err |-> NewSyscallError(op, "EINVAL")]
    ELSE [sa |-> [Ifindex |-> ifIndex, Protocol |-> protocol,
                  Halen |-> Uint8(Len(addr.hw)),
                  Addr |-> CopyInto(ZeroAddr, addr.hw), nil |-> FALSE],
          err |-> NilErr]

\* (c *Conn) toSockaddr(op, addr), with c.ifIndex and c.protocol
toSockaddr(op, addr, ifIndex, protocol) ==
    IF addr.kind # "Addr" \/ addr.nilHw
    THEN [sa |-> NoSockaddr, err |-> NewSyscallError(op, "EINVAL")]
    ELSE IF Len(addr.hw) > SockaddrAddrLen
    THEN [sa |-> NoSockaddr, err |-> NewSyscallError(op, "EINVAL")]
    ELSE [sa |-> [Ifindex |-> ifIndex, Protocol |-> protocol,
                  Halen |-> Uint8(Len(addr.hw)),
                  Addr |-> CopyInto(ZeroAddr, addr.hw), nil |-> FALSE],
          err |-> NilErr]

\* fromSockaddr(sa): sall.Addr[:sall.Halen]
fromSockaddr(sa) ==
    IF sa.nil THEN AddrNil
    ELSE MkAddr(SubSeq(sa.Addr, 1, sa.Halen))


(***************************************************************************)
(* The Conn facade (packet.go): operation names and opError.               *)
(***************************************************************************)
network == "packet"

opClose == "close"
opListen == "listen"
opRawControl == "raw-control"
opRawRead == "raw-read"
opRawWrite == "raw-write"
opRead == "read"
opSet == "set"
opSyscallConn == "syscall-conn"
opWrite == "write"

\* opError(op, err, local): nil for a nil err, else a *net.OpError around it.
opError(op, err, local) ==
    IF IsNil(err) THEN NilErr
    ELSE [wraps |-> <<[Op |-> op, Net |-> network, Addr |-> local]>> \o err.wraps,
          syscall |-> err.syscall,
          cause |-> err.cause]

\* The Type constants: the zero value is not valid.
Raw == 1
Datagram == 2

\* errUnimplemented
errUnimplemented == RawErr("packet: not implemented")

\* The build has the capture-device driver (packet_macos.go).
IsBSD == goos \in {"darwin", "freebsd"}

\* The interface handed to Listen: ifi.Index, ifi.MTU, ifi.HardwareAddr.
Ifi == [Index |-> 2, MTU |-> 1500, HardwareAddr |-> <<2, 0, 0, 0, 0, 1>>]

NoConn == [addr |-> AddrNil, ifIndex |-> 0, protocol |-> 0, buflen |-> 0]

Unbound == [bound |-> FALSE, proto |-> 0]

Min(a, b) == IF a < b THEN a ELSE b

(***************************************************************************)
(* The classifier programs of the capture-device driver (packet_macos.go). *)
(* An instruction is a record: Op the operation, Jt and Jf the skips of a  *)
(* jump, K the constant.  bpf.Assemble turns a bpf.Instruction into a      *)
(* bpf.RawInstruction, assembleBpfInsn copies that into a syscall.BpfInsn  *)
(* (Code, Jt, Jf, K).                                                      *)
(***************************************************************************)
\* uint32(i): the low 32 bits, 16 at a time
Uint32(i) == (i % 65536) + 65536 * ((i \div 65536) % 65536)

etherTypeOffset == 12
etherTypeLength == 2

\* bpf.LoadAbsolute{Off, Size}
LoadAbsolute(off, size) ==
    [Op |-> IF size = 2 THEN "ldh" ELSE "ldb", Jt |-> 0, Jf |-> 0, K |-> off]

\* bpf.JumpIf{Cond: bpf.JumpEqual, Val, SkipTrue, SkipFalse}
JumpIfEqual(val, skipTrue, skipFalse) ==
    [Op |-> "jeq", Jt |-> skipTrue, Jf |-> skipFalse, K |-> val]

\* bpf.RetConstant{Val}
RetConstant(val) == [Op |-> "ret", Jt |-> 0, Jf |-> 0, K |-> val]

\* baseFilter with a jump that skips nothing on a match
baseFilterNoSkip(proto) ==
    <<LoadAbsolute(etherTypeOffset, etherTypeLength),
      JumpIfEqual(Uint32(proto), 0, 0),
      RetConstant(0)>>

\* baseFilter(proto): load the EtherType, skip the drop when it equals proto
baseFilter(proto) ==
    <<LoadAbsolute(etherTypeOffset, etherTypeLength),
      JumpIfEqual(Uint32(proto), 1, 0),
      RetConstant(0)>>

\* baseInterfaceFilter(proto, mtu)
baseInterfaceFilter(proto, mtu) ==
    Append(baseFilter(proto), RetConstant(Uint32(mtu)))

\* assembleBpfInsn(filter)
assembleBpfInsn(filter) ==
    [k \in 1 .. Len(filter) |->
        [Code |-> filter[k].Op, Jt |-> filter[k].Jt, Jf |-> filter[k].Jf,
         K |-> filter[k].K]]

\* The kernel's check of a program handed to BIOCSETF: not empty, every jump
\* lands inside the program, the last instruction returns.
ValidProg(prog) ==
    /\ Len(prog) > 0
    /\ prog[Len(prog)].Code = "ret"
    /\ \A k \in 1 .. Len(prog) :
        prog[k].Code = "jeq" =>
            /\ k + 1 + prog[k].Jt <= Len(prog)
            /\ k + 1 + prog[k].Jf <= Len(prog)

\* syscall.SetBpf(fd, insns)
SetBpf(insns) == IF ValidProg(insns) THEN NilErr ELSE RawErr("EINVAL")

\* conn.SetBPF(filter) with an instruction order other than base-then-caller
SetBPFPrepend(protocol, filter) ==
    LET insns == assembleBpfInsn(filter \o baseFilter(protocol))
    IN  [insns |-> insns, err |-> SetBpf(insns)]

\* conn.SetBPF(filter): append(base, filter...), installed with SetBpf
SetBPF(protocol, filter) ==
    LET insns == assembleBpfInsn(baseFilter(protocol) \o filter)
    IN  [insns |-> insns, err |-> SetBpf(insns)]

(***************************************************************************)
(* The device's side: the filter machine run on a frame, and what the      *)
(* device stores for a read.  A frame is its length and its EtherType;     *)
(* bytes 12 and 13 hold the EtherType in network order, the other bytes    *)
(* are 0.                                                                  *)
(***************************************************************************)
\* byte i of the frame, counted from 0
FrameByte(frame, i) ==
    IF i = etherTypeOffset THEN frame.et \div 256
    ELSE IF i = etherTypeOffset + 1 THEN frame.et % 256
    ELSE 0

\* The filter machine from instruction pc on, with accumulator a: the
\* verdict is the number of bytes to keep, 0 to drop the frame.
RECURSIVE RunFrom(_, _, _, _)
RunFrom(prog, pc, a, frame) ==
    IF pc > Len(prog)
    THEN 0
    ELSE LET ins == prog[pc]
         IN  CASE ins.Code = "ldh" ->
                    IF ins.K + 2 > frame.len
                    THEN 0
                    ELSE RunFrom(prog, pc + 1,
                                 FrameByte(frame, ins.K) * 256
                                    + FrameByte(frame, ins.K + 1), frame)
               [] ins.Code = "ldb" ->
                    IF ins.K + 1 > frame.len
                    THEN 0
                    ELSE RunFrom(prog, pc + 1, FrameByte(frame, ins.K), frame)
               [] ins.Code = "jeq" ->
                    RunFrom(prog, pc + 1 + (IF a = ins.K THEN ins.Jt ELSE ins.Jf),
                            a, frame)
               [] ins.Code = "ret" -> ins.K

RunFilter(prog, frame) == RunFrom(prog, 1, 0, frame)

\* The device with prog installed, on a frame from the interface: the frame
\* is dropped on verdict 0, else its first verdict bytes are stored.
Capture(prog, frame) ==
    LET verdict == RunFilter(prog, frame)
    IN  [verdict |-> verdict, stored |-> verdict > 0,
         caplen |-> Min(verdict, frame.len)]

\* The program configureBPF installs for a Conn of protocol proto.
InterfaceProg(proto, mtu) == assembleBpfInsn(baseInterfaceFilter(proto, mtu))

(***************************************************************************)
(* listen and bind on Linux (packet_linux.go).  fail names the OS call     *)
(* that fails, if the code gets to it: "socket", "setbpf", "bind",         *)
(* "getsockname", or "none".  The result holds the Conn fields, the error, *)
(* the state the descriptor is left in, the protocol the socket is bound   *)
(* to and the OS calls made, and besides: the protocol handed to           *)
(* socket(2), the program installed on the primitive, the devices the scan *)
(* tried with what each open yielded, whether the device was attached to   *)
(* the interface and whether its buffer was flushed after that.            *)
(***************************************************************************)
NoProto == 0 - 1

ListenResult(c, err, d, kp, log) ==
    [conn |-> c, err |-> err, fd |-> d, kproto |-> kp, klog |-> log,
     sproto |-> NoProto, prog |-> <<>>, tried |-> <<>>,
     attached |-> FALSE, flushed |-> FALSE]

\* a bind that installs the caller's filter after bind(2)
bindThenFilter(ifIndex, protocol, cfg, fail) ==
    LET pnet == htons(protocol)
        log1 == IF Len(cfg.Filter) > 0 THEN <<"bind", "setbpf">> ELSE <<"bind">>
    IN  [ListenResult([addr |-> MkAddr(Ifi.HardwareAddr), ifIndex |-> ifIndex,
                       protocol |-> pnet.v, buflen |-> 0],
                      NilErr, "open", [bound |-> TRUE, proto |-> pnet.v],
                      log1 \o <<"getsockname">>)
            EXCEPT !.prog = cfg.Filter]

\* bind(c, ifIndex, protocol, cfg)
bind(ifIndex, protocol, cfg, fail) ==
    LET filter == Len(cfg.Filter) > 0
        log1 == IF filter THEN <<"setbpf">> ELSE <<>>
        pnet == htons(protocol)
    IN  IF filter /\ fail = "setbpf"
        THEN ListenResult(NoConn, NewSyscallError("setsockopt", "EINVAL"),
                          "open", Unbound, log1)
        ELSE IF pnet.err # "nil"
        THEN [ListenResult(NoConn, RawErr(pnet.err), "open", Unbound, log1)
                EXCEPT !.prog = cfg.Filter]
        ELSE IF fail = "bind"
        THEN [ListenResult(NoConn, NewSyscallError("bind", "ENODEV"),
                           "open", Unbound, log1 \o <<"bind">>)
                EXCEPT !.prog = cfg.Filter]
        ELSE IF fail = "getsockname"
        THEN [ListenResult(NoConn, NewSyscallError("getsockname", "ENOBUFS"), "open",
                           [bound |-> TRUE, proto |-> pnet.v],
                           log1 \o <<"bind", "getsockname">>)
                EXCEPT !.prog = cfg.Filter]
        ELSE [ListenResult([addr |-> MkAddr(Ifi.HardwareAddr),
                            ifIndex |-> ifIndex,
                            protocol |-> pnet.v,
                            buflen |-> 0],
                           NilErr, "open",
                           [bound |-> TRUE, proto |-> pnet.v],
                           log1 \o <<"bind", "getsockname">>)
                EXCEPT !.prog = cfg.Filter]

\* listen(ifi, socketType, protocol, cfg) on Linux
listenLinux(socketType, protocol, cfg, fail) ==
    IF socketType \notin {Raw, Datagram}
    THEN ListenResult(NoConn, RawErr("packet: invalid Type value"), "none", Unbound, <<>>)
    ELSE IF fail = "socket"
    THEN [ListenResult(NoConn, NewSyscallError("socket", "EPERM"), "none", Unbound,
                       <<"socket">>)
            EXCEPT !.sproto = 0]
    ELSE LET b == bind(Ifi.Index, protocol, cfg, fail)
         IN  IF ~IsNil(b.err)
             THEN [ListenResult(NoConn, b.err, "closed", b.kproto,
                                <<"socket">> \o b.klog \o <<"close">>)
                     EXCEPT !.sproto = 0, !.prog = b.prog]
             ELSE [ListenResult(b.conn, NilErr, "open", b.kproto,
                                <<"socket">> \o b.klog)
                     EXCEPT !.sproto = 0, !.prog = b.prog]

(***************************************************************************)
(* listen and configureBPF on the BSD family (packet_macos.go).  devs      *)
(* gives, for each /dev/bpf<i>, what opening it yields: "free" (opened),   *)
(* "busy" (EBUSY) or "eacces" (another error).                             *)
(***************************************************************************)
\* The highest device index the model tries (the code tries 0 .. 255).
MaxDev == 2

DevStates == {"free", "busy", "eacces"}

\* a scan that gives up at the first device that does not open
ScanDevicesNoSkip(devs, i, log) ==
    IF devs[i] = "free"
    THEN [opened |-> TRUE, idx |-> i, err |-> NilErr, klog |-> Append(log, "open"),
          tried |-> <<[idx |-> i, res |-> devs[i]]>>]
    ELSE [opened |-> FALSE, idx |-> i, err |-> NewSyscallError("open", "EACCES"),
          klog |-> Append(log, "open"), tried |-> <<[idx |-> i, res |-> devs[i]]>>]

\* The loop over /dev/bpf<i>, from index i on: the index opened, or the error.
RECURSIVE ScanDevices(_, _, _)
ScanDevices(devs, i, log) ==
    IF i > MaxDev
    THEN [opened |-> FALSE, idx |-> 0, err |-> NilErr, klog |-> log, tried |-> <<>>]
    ELSE LET log1 == Append(log, "open")
             this == <<[idx |-> i, res |-> devs[i]]>>
         IN  IF devs[i] = "free"
             THEN [opened |-> TRUE, idx |-> i, err |-> NilErr, klog |-> log1,
                   tried |-> this]
             ELSE IF devs[i] = "busy"
             THEN LET r == ScanDevices(devs, i + 1, log1)
                  IN  [r EXCEPT !.tried = this \o @]
             ELSE [opened |-> FALSE, idx |-> i,
                   err |-> NewSyscallError("open", "EACCES"), klog |-> log1,
                   tried |-> this]

\* The device buffer size BpfBuflen reports.
DevBuflen == 128

\* setBPFDirection (direction_bsd.go): the value handed to BIOCSSEESENT, or
\* the error for a direction this platform does not support.
setBPFDirection(direction) ==
    IF direction = "DirectionOut"
    THEN [err |-> RawErr("DirectionOut is not supported"), called |-> FALSE, dirfilt |-> 0]
    ELSE [err |-> NilErr, called |-> TRUE,
          dirfilt |-> IF direction = "DirectionInOut" THEN 1 ELSE 0]

\* a configuration that leaves the device buffer as it is
BpfStepsNoFlush == <<"setif", "immediate", "buflen", "hdrcmpl", "direction", "setbpf">>

BpfSteps == <<"setif", "immediate", "buflen", "hdrcmpl", "direction", "setbpf", "flush">>

\* configureBPF(fd, ifi, proto, direction): the calls made up to the first
\* failing one.
RECURSIVE ConfigureFrom(_, _, _, _)
ConfigureFrom(k, direction, fail, log) ==
    IF k > Len(BpfSteps)
    THEN [err |-> NilErr, klog |-> log]
    ELSE LET step == BpfSteps[k]
             dir == setBPFDirection(direction)
         IN  IF step = "direction" /\ ~dir.called
             THEN [err |-> dir.err, klog |-> log]
             ELSE IF fail = step
             THEN [err |-> RawErr("ENXIO"), klog |-> Append(log, step)]
             ELSE ConfigureFrom(k + 1, direction, fail, Append(log, step))

configureBPF(proto, direction, fail) ==
    LET r == ConfigureFrom(1, direction, fail, <<>>)
        done(step) == \E k \in 1 .. Len(r.klog) : r.klog[k] = step /\ fail # step
    IN  [err |-> r.err,
         klog |-> r.klog,
         prog |-> IF done("setbpf") THEN InterfaceProg(proto, Ifi.MTU) ELSE <<>>,
         attached |-> done("setif"),
         flushed |-> done("flush"),
         buflen |-> IF IsNil(r.err) THEN DevBuflen ELSE 0,
         kproto |-> IF \E k \in 1 .. Len(r.klog) : r.klog[k] = "setbpf"
                                                   /\ (fail # "setbpf")
                    THEN [bound |-> TRUE, proto |-> proto]
                    ELSE Unbound]

\* listen(ifi, socketType, protocol, cfg) on the BSD family
listenBSD(socketType, protocol, cfg, devs, fail) ==
    LET scan == ScanDevices(devs, 0, <<>>)
        proto == Uint16(protocol)
        cf == configureBPF(proto, cfg.Direction, fail)
    IN  IF ~IsNil(scan.err)
        THEN [ListenResult(NoConn, scan.err, "none", Unbound, scan.klog)
                EXCEPT !.tried = scan.tried]
        ELSE IF ~scan.opened
        THEN [ListenResult(NoConn, RawErr("unable to open BPF device"), "none", Unbound,
                           scan.klog)
                EXCEPT !.tried = scan.tried]
        ELSE IF ~IsNil(cf.err)
        THEN [ListenResult(NoConn, cf.err, "open", cf.kproto, scan.klog \o cf.klog)
                EXCEPT !.tried = scan.tried, !.prog = cf.prog,
                       !.attached = cf.attached, !.flushed = cf.flushed]
        ELSE [ListenResult([addr |-> AddrNil, ifIndex |-> 0, protocol |-> proto,
                            buflen |-> cf.buflen],
                           NilErr, "open", cf.kproto, scan.klog \o cf.klog)
                EXCEPT !.tried = scan.tried, !.prog = cf.prog,
                       !.attached = cf.attached, !.flushed = cf.flushed]

\* a listen stub that reports success without a Conn
listenOthersNil(socketType, protocol, cfg) ==
    ListenResult(NoConn, NilErr, "none", Unbound, <<>>)

\* listen on a platform without a driver (packet_others.go)
listenOthers(socketType, protocol, cfg) ==
    ListenResult(NoConn, errUnimplemented, "none", Unbound, <<>>)

\* listen: the driver the build selects
listen(socketType, protocol, cfg, devs, fail) ==
    IF goos = "linux"
    THEN listenLinux(socketType, protocol, cfg, fail)
    ELSE IF IsBSD
    THEN listenBSD(socketType, protocol, cfg, devs, fail)
    ELSE listenOthers(socketType, protocol, cfg)

\* fileConn: panic("todo") on Linux (packet_linux.go), errUnimplemented on
\* every other platform (packet_others.go)
fileConn(f) ==
    IF goos = "linux"
    THEN [err |-> NilErr, paniced |-> TRUE]
    ELSE [err |-> errUnimplemented, paniced |-> FALSE]

(***************************************************************************)
(* Time.  The clock advances in ticks of TickMs milliseconds, MaxTicks     *)
(* times at most.                                                          *)
(***************************************************************************)
TickMs == 100
MaxTicks == 3

\* The clock value at Init: late enough for a deadline to lie in the past.
StartMs == 10 * TickMs

\* readTimeout: the maximum read timeout per syscall, 200 ms.
readTimeout == 200

(***************************************************************************)
(* What an operation returned.  Every operation leaves its result in       *)
(* last: op is the operation, err the error returned, n the byte count,    *)
(* from the source address, conn whether a Conn was returned, sent whether *)
(* a send was issued to the OS primitive, paniced whether the call ended   *)
(* in a run-time panic instead of returning.  The remaining fields         *)
(* describe the call: the protocol given to Listen, the destination given  *)
(* to WriteTo, whether the call was issued after Close had returned,       *)
(* whether the read deadline lay in the past when ReadFrom was issued,     *)
(* whether Close returned while the ReadFrom was blocked in the device     *)
(* read, and the time the call took and the time since Close returned.     *)
(***************************************************************************)
\* The most frames a packet socket is sent while its statistics are tracked.
MaxArrivals == 2

\* The statistics of a fresh packet socket: packets counts the frames the
\* socket received since the statistics were last read; reported is the sum
\* of the counts read so far and delivered the number of frames ReadFrom
\* has returned.
NoKstat == [packets |-> 0, reported |-> 0, delivered |-> 0]

\* No *Stats value.
NoStats == [nil |-> TRUE, Packets |-> 0]

NoLast ==
    [op |-> "none", err |-> NilErr, rawErr |-> NilErr, n |-> 0, from |-> AddrNil,
     conn |-> FALSE, sent |-> FALSE, paniced |-> FALSE,
     stype |-> 0, proto |-> 0, klog |-> <<>>, devN |-> 0, lenB |-> 0,
     stats |-> NoStats, dest |-> AddrNil, afterClose |-> FALSE,
     pastAtIssue |-> FALSE, closedWhileBlocked |-> FALSE, closedDuring |-> FALSE,
     elapsed |-> 0, sinceClose |-> 0]

\* The result of an operation that returns only an error.
ErrResult(name, rawErr, err) ==
    [NoLast EXCEPT !.op = name, !.rawErr = rawErr, !.err = err,
                   !.afterClose = (cst = "closed")]

NoRead ==
    [deadline |-> 0, issuedAt |-> 0, afterClose |-> FALSE,
     pastAtIssue |-> FALSE, closedWhileBlocked |-> FALSE, closedDuring |-> FALSE,
     sliceEnd |-> 0, noTimeout |-> FALSE]

HasConn == cst \in {"open", "closed"}

(***************************************************************************)
(* The inputs the operations are tried with.                               *)
(***************************************************************************)
\* "windows" stands for the platforms without a driver.
Platforms == {"linux", "darwin", "freebsd", "windows"}

SocketTypes == {0, Raw, Datagram, 3}

\* -1, 0x0800 and 0x10800
ProtocolInputs == {0 - 1, 2048, MaxUint16 + 1 + 2048}

Directions == {"DirectionIn", "DirectionInOut", "DirectionOut"}

\* Config values: a filter of no or one instruction, and a direction.
CfgInputs == [Filter : {<<>>, <<"ret">>}, Direction : Directions]

FailPoints ==
    IF goos = "linux"
    THEN {"none", "socket", "setbpf", "bind", "getsockname"}
    ELSE IF IsBSD
    THEN {"none"} \cup {BpfSteps[k] : k \in 1 .. Len(BpfSteps)}
    ELSE {"none"}

\* Destinations for WriteTo: another type of net.Addr, an Addr without a
\* hardware address, a 6-byte address, a 9-byte address.
DestInputs ==
    {AddrOther, AddrNilHw, MkAddr(<<2, 0, 0, 0, 0, 7>>),
     MkAddr(<<2, 0, 0, 0, 0, 7, 8, 9, 10>>)}

\* len(b) of the buffers handed to ReadFrom.
BufLens == {14, 60}

\* len(b) of the frames handed to WriteTo.
WriteLens == {60}

\* The deadlines tried: none, one tick before the start, three ticks after it.
DeadlineInputs == {0, StartMs - TickMs, StartMs + 3 * TickMs}

\* The source hardware address of the frames that arrive.
FrameSrc == <<2, 0, 0, 0, 0, 9>>

\* The length of the frames that arrive: an Ethernet header and no payload.
FrameLen == 14

\* The most frames waiting in the OS primitive.
MaxFrames == 1

(***************************************************************************)
(* Listen (packet.go)                                                      *)
(***************************************************************************)
Listen ==
    /\ cst = "none"
    /\ \E socketType \in SocketTypes, protocol \in ProtocolInputs, cfg \in CfgInputs,
          devs \in [0 .. MaxDev -> DevStates], fail \in FailPoints :
        LET r == listen(socketType, protocol, cfg, devs, fail)
            err == opError(opListen, r.err, MkAddr(Ifi.HardwareAddr))
        IN  /\ cst' = IF IsNil(err) THEN "open" ELSE "failed"
            /\ conn' = r.conn
            /\ fd' = r.fd
            /\ kproto' = r.kproto
            /\ last' = [NoLast EXCEPT !.op = "Listen", !.rawErr = r.err, !.err = err,
                                      !.conn = IsNil(err), !.stype = socketType,
                                      !.proto = protocol, !.klog = r.klog]
    /\ UNCHANGED <<goos, rtimeout, avail, now, closedAt, rpc, rd, raw>>
    /\ UNCHANGED <<htonsVars, addrVars, pureVars, kstat>>

(***************************************************************************)
(* FileConn (packet.go): no address is available for the error; a panic in *)
(* fileConn ends the caller's process.                                     *)
(***************************************************************************)
\* The files handed to FileConn: nil, or an open file.
FileInputs == {"nil", "file"}

FileConn ==
    /\ cst = "none"
    /\ \E f \in FileInputs :
        LET r == fileConn(f)
        IN  last' = [NoLast EXCEPT !.op = "FileConn", !.rawErr = r.err,
                                   !.err = opError(opListen, r.err, AddrNil),
                                   !.paniced = r.paniced,
                                   !.conn = (IsNil(r.err) /\ ~r.paniced)]
    /\ cst' = "failed"
    /\ UNCHANGED <<goos, conn, rtimeout, fd, kproto, avail, now, closedAt, rpc, rd, raw>>
    /\ UNCHANGED <<htonsVars, addrVars, pureVars, kstat>>

(***************************************************************************)
(* LocalAddr (packet.go): return c.addr                                    *)
(***************************************************************************)
LocalAddr ==
    /\ HasConn
    /\ last' = [NoLast EXCEPT !.op = "LocalAddr", !.from = conn.addr,
                              !.afterClose = (cst = "closed")]
    /\ UNCHANGED <<goos, cst, conn, rtimeout, fd, kproto, avail, now, closedAt,
                   rpc, rd, raw>>
    /\ UNCHANGED <<htonsVars, addrVars, pureVars, kstat>>

(***************************************************************************)
(* Stats.  On the BSD family Conn.stats returns errUnimplemented           *)
(* (packet_macos.go).  On Linux the packet socket's statistics are read    *)
(* from the kernel, which resets its counters at each read (packet(7),     *)
(* PACKET_STATISTICS).                                                     *)
(***************************************************************************)
opStats == "stats"

\* a stats that reports zeroed counters and no error
statsBSDZero == [stats |-> [nil |-> FALSE, Packets |-> 0], err |-> NilErr]

\* Conn.stats (BSD): return nil, errUnimplemented
statsBSD == [stats |-> NoStats, err |-> errUnimplemented]

\* Conn.stats (Linux): the counters of the socket, or the error of a closed
\* descriptor
statsLinux ==
    IF fd # "open"
    THEN [stats |-> NoStats,
          err |-> opError(opStats, NewSyscallError("getsockopt", "EBADF"), conn.addr)]
    ELSE [stats |-> [nil |-> FALSE, Packets |-> kstat.packets], err |-> NilErr]

Stats ==
    /\ HasConn
    /\ LET r == IF IsBSD THEN statsBSD ELSE statsLinux
       IN  /\ last' = [NoLast EXCEPT !.op = "Stats", !.rawErr = r.err, !.err = r.err,
                                     !.stats = r.stats,
                                     !.afterClose = (cst = "closed")]
           /\ kstat' = IF ~IsBSD /\ IsNil(r.err)
                       THEN [kstat EXCEPT !.reported = @ + kstat.packets,
                                          !.packets = 0]
                       ELSE kstat
    /\ UNCHANGED <<goos, cst, conn, rtimeout, fd, kproto, avail, now, closedAt,
                   rpc, rd, raw>>
    /\ UNCHANGED <<htonsVars, addrVars, pureVars>>

(***************************************************************************)
(* Close (packet.go; conn.Close in packet_macos.go, socket.Conn on Linux): *)
(* the descriptor is closed; a Close of a closed Conn reports the error of *)
(* the second close.  A ReadFrom in progress on another thread is marked.  *)
(***************************************************************************)
ErrClosed == NewSyscallError("close", "ErrClosed")

Close ==
    /\ HasConn
    /\ LET rawErr == IF fd = "open" THEN NilErr ELSE ErrClosed
       IN  last' = ErrResult("Close", rawErr, opError(opClose, rawErr, conn.addr))
    /\ fd' = "closed"
    /\ cst' = "closed"
    /\ closedAt' = IF cst = "open" THEN now ELSE closedAt
    /\ rd' = IF rpc = "idle" \/ cst # "open" THEN rd
             ELSE [rd EXCEPT !.closedDuring = TRUE,
                             !.closedWhileBlocked = (rpc = "inread" /\ avail = 0)]
    /\ UNCHANGED <<goos, conn, rtimeout, kproto, avail, now, rpc, raw>>
    /\ UNCHANGED <<htonsVars, addrVars, pureVars, kstat>>

(***************************************************************************)
(* The deadline setters (packet.go over conn.Set*Deadline in               *)
(* packet_macos.go, or over socket.Conn on Linux, which refuses a closed   *)
(* descriptor).                                                            *)
(***************************************************************************)
\* socket.Conn's answer to an operation on its descriptor
SocketErr(op) == IF fd = "open" THEN NilErr ELSE NewSyscallError(op, "EBADF")

\* conn.SetReadDeadline (BSD): store the deadline, return nil
SetReadDeadlineBSD(t) == [rtimeout |-> t, err |-> NilErr]

\* conn.SetDeadline (BSD): return c.SetReadDeadline(t)
SetDeadlineBSD(t) == SetReadDeadlineBSD(t)

\* conn.SetWriteDeadline (BSD): return errUnimplemented
SetWriteDeadlineBSD(t) == [rtimeout |-> rtimeout, err |-> errUnimplemented]

\* socket.Conn's setters (Linux)
SetDeadlineLinux(t, isRead) ==
    [rtimeout |-> IF fd = "open" /\ isRead THEN t ELSE rtimeout,
     err |-> SocketErr("setdeadline")]

SetDeadline ==
    /\ HasConn
    /\ \E t \in DeadlineInputs :
        LET r == IF IsBSD THEN SetDeadlineBSD(t) ELSE SetDeadlineLinux(t, TRUE)
        IN  /\ rtimeout' = r.rtimeout
            /\ last' = ErrResult("SetDeadline", r.err, opError(opSet, r.err, conn.addr))
    /\ UNCHANGED <<goos, cst, conn, fd, kproto, avail, now, closedAt, rpc, rd, raw>>
    /\ UNCHANGED <<htonsVars, addrVars, pureVars, kstat>>

SetReadDeadline ==
    /\ HasConn
    /\ \E t \in DeadlineInputs :
        LET r == IF IsBSD THEN SetReadDeadlineBSD(t) ELSE SetDeadlineLinux(t, TRUE)
        IN  /\ rtimeout' = r.rtimeout
            /\ last' = ErrResult("SetReadDeadline", r.err,
                                 opError(opSet, r.err, conn.addr))
    /\ UNCHANGED <<goos, cst, conn, fd, kproto, avail, now, closedAt, rpc, rd, raw>>
    /\ UNCHANGED <<htonsVars, addrVars, pureVars, kstat>>

SetWriteDeadline ==
    /\ HasConn
    /\ \E t \in DeadlineInputs :
        LET r == IF IsBSD THEN SetWriteDeadlineBSD(t) ELSE SetDeadlineLinux(t, FALSE)
        IN  /\ rtimeout' = r.rtimeout
            /\ last' = ErrResult("SetWriteDeadline", r.err,
                                 opError(opSet, r.err, conn.addr))
    /\ UNCHANGED <<goos, cst, conn, fd, kproto, avail, now, closedAt, rpc, rd, raw>>
    /\ UNCHANGED <<htonsVars, addrVars, pureVars, kstat>>

(***************************************************************************)
(* SyscallConn and the rawConn it returns (packet.go).  On the BSD family  *)
(* conn.SyscallConn returns errUnimplemented.                              *)
(***************************************************************************)
SyscallConn ==
    /\ HasConn
    /\ LET rawErr == IF IsBSD THEN errUnimplemented ELSE SocketErr("syscallconn")
       IN  /\ last' = [ErrResult("SyscallConn", rawErr,
                                 opError(opSyscallConn, rawErr, conn.addr))
                          EXCEPT !.conn = IsNil(rawErr)]
           /\ raw' = (raw \/ IsNil(rawErr))
    /\ UNCHANGED <<goos, cst, conn, rtimeout, fd, kproto, avail, now, closedAt,
                   rpc, rd>>
    /\ UNCHANGED <<htonsVars, addrVars, pureVars, kstat>>

\* rc.opError(op, rc.rc.<name>(fn)): what a method of the rawConn returns
RawResult(name, op) ==
    LET rawErr == SocketErr(name)
    IN  ErrResult(name, rawErr, opError(op, rawErr, conn.addr))

RawControl ==
    /\ raw
    /\ last' = RawResult("Control", opRawControl)
    /\ UNCHANGED <<goos, cst, conn, rtimeout, fd, kproto, avail, now, closedAt,
                   rpc, rd, raw>>
    /\ UNCHANGED <<htonsVars, addrVars, pureVars, kstat>>

RawRead ==
    /\ raw
    /\ last' = RawResult("Read", opRawRead)
    /\ UNCHANGED <<goos, cst, conn, rtimeout, fd, kproto, avail, now, closedAt,
                   rpc, rd, raw>>
    /\ UNCHANGED <<htonsVars, addrVars, pureVars, kstat>>

RawWrite ==
    /\ raw
    /\ last' = RawResult("Write", opRawWrite)
    /\ UNCHANGED <<goos, cst, conn, rtimeout, fd, kproto, avail, now, closedAt,
                   rpc, rd, raw>>
    /\ UNCHANGED <<htonsVars, addrVars, pureVars, kstat>>

(***************************************************************************)
(* WriteTo.  On Linux (Conn.writeTo in packet_linux.go) the destination is *)
(* converted by toSockaddr and the frame sent with sendto(2); on the BSD   *)
(* family (Conn.writeTo in packet_macos.go) the frame is written to the    *)
(* device and the destination is not looked at.  osFail says whether the   *)
(* OS refuses the frame.                                                   *)
(***************************************************************************)
writeToLinux(lenB, addr, osFail) ==
    LET sa == toSockaddr("sendto", addr, conn.ifIndex, conn.protocol)
        sendErr == IF fd # "open" THEN NewSyscallError("sendto", "EBADF")
                   ELSE IF osFail THEN NewSyscallError("sendto", "ENETDOWN")
                   ELSE NilErr
    IN  IF ~IsNil(sa.err)
        THEN [n |-> 0, rawErr |-> sa.err, err |-> opError(opWrite, sa.err, conn.addr),
              sent |-> FALSE]
        ELSE IF ~IsNil(sendErr)
        THEN [n |-> 0, rawErr |-> sendErr, err |-> opError(opWrite, sendErr, conn.addr),
              sent |-> (fd = "open")]
        ELSE [n |-> lenB, rawErr |-> NilErr, err |-> NilErr, sent |-> TRUE]

\* syscall.Write(c.c.fd, b): the count is -1 when the write fails
writeToBSD(lenB, addr, osFail) ==
    LET wrErr == IF fd # "open" THEN RawErr("EBADF")
                 ELSE IF osFail THEN RawErr("ENXIO")
                 ELSE NilErr
    IN  IF ~IsNil(wrErr)
        THEN [n |-> 0 - 1, rawErr |-> wrErr, err |-> wrErr, sent |-> (fd = "open")]
        ELSE [n |-> lenB, rawErr |-> NilErr, err |-> NilErr, sent |-> TRUE]

WriteTo ==
    /\ HasConn
    /\ \E lenB \in WriteLens, addr \in DestInputs, osFail \in BOOLEAN :
        LET r == IF IsBSD THEN writeToBSD(lenB, addr, osFail)
                 ELSE writeToLinux(lenB, addr, osFail)
        IN  last' = [NoLast EXCEPT !.op = "WriteTo", !.rawErr = r.rawErr, !.err = r.err,
                                   !.n = r.n, !.sent = r.sent, !.dest = addr,
                                   !.afterClose = (cst = "closed")]
    /\ UNCHANGED <<goos, cst, conn, rtimeout, fd, kproto, avail, now, closedAt,
                   rpc, rd, raw>>
    /\ UNCHANGED <<htonsVars, addrVars, pureVars, kstat>>

(***************************************************************************)
(* ReadFrom on Linux (Conn.readFrom in packet_linux.go): one recvfrom(2)   *)
(* through socket.Conn, which returns a frame when one is waiting, fails   *)
(* on a closed descriptor, times out when the read deadline has passed,    *)
(* and blocks otherwise.                                                   *)
(***************************************************************************)
\* the sockaddr recvfrom(2) fills in for a frame
FrameSockaddr ==
    [Ifindex |-> Ifi.Index, Protocol |-> conn.protocol, Halen |-> Len(FrameSrc),
     Addr |-> CopyInto(ZeroAddr, FrameSrc), nil |-> FALSE]

ReadFromLinux ==
    /\ HasConn
    /\ ~IsBSD
    /\ \E lenB \in BufLens :
        LET closed == fd # "open"
            timedOut == rtimeout # 0 /\ now >= rtimeout
            rawErr == IF closed THEN NewSyscallError("recvfrom", "EBADF")
                      ELSE IF avail > 0 THEN NilErr
                      ELSE NewSyscallError("recvfrom", "i/o timeout")
            sa == IF IsNil(rawErr) THEN FrameSockaddr ELSE NoSockaddr
        IN  /\ closed \/ avail > 0 \/ timedOut
            /\ avail' = IF IsNil(rawErr) THEN avail - 1 ELSE avail
            /\ last' = [NoLast EXCEPT !.op = "ReadFrom", !.rawErr = rawErr,
                                      !.err = opError(opRead, rawErr, conn.addr),
                                      !.n = IF IsNil(rawErr) THEN Min(lenB, FrameLen) ELSE 0,
                                      !.from = fromSockaddr(sa),
                                      !.afterClose = (cst = "closed"),
                                      !.pastAtIssue = (rtimeout # 0 /\ rtimeout < now)]
            /\ kstat' = IF IsNil(rawErr)
                        THEN [kstat EXCEPT !.delivered = @ + 1]
                        ELSE kstat
    /\ UNCHANGED <<goos, cst, conn, rtimeout, fd, kproto, now, closedAt, rpc, rd, raw>>
    /\ UNCHANGED <<htonsVars, addrVars, pureVars>>

(***************************************************************************)
(* ReadFrom on the BSD family (Conn.readFrom in packet_macos.go), step by  *)
(* step, so that another thread can act between the steps:                 *)
(*   ReadStart       copy the deadline under the mutex, allocate buf       *)
(*   ReadSetTimeout  compute the timeout, program it with BIOCSRTIMEOUT    *)
(*   ReadEnter       enter read(2) on the device                           *)
(*   ReadGotFrame    read(2) returns n > 0: strip the header and return    *)
(*   ReadSliceOver   read(2) returns 0 after the timeout: loop             *)
(***************************************************************************)
\* bpfLen(): the length of the BPF header in front of each frame
bpfHeaderLen == 18
bpfXHeaderLen == 26

bpfLen == IF goos = "freebsd" THEN bpfXHeaderLen ELSE bpfHeaderLen

\* The result of a ReadFrom that ends now.
ReadResult(n, from, rawErr, err, paniced) ==
    [NoLast EXCEPT !.op = "ReadFrom", !.rawErr = rawErr, !.err = err, !.n = n,
                   !.from = from, !.paniced = paniced,
                   !.afterClose = rd.afterClose,
                   !.pastAtIssue = rd.pastAtIssue,
                   !.closedWhileBlocked = rd.closedWhileBlocked,
                   !.closedDuring = rd.closedDuring,
                   !.elapsed = now - rd.issuedAt,
                   !.sinceClose = IF cst = "closed" THEN now - closedAt ELSE 0]

ReadStart ==
    /\ HasConn
    /\ IsBSD
    /\ rpc = "idle"
    /\ rd' = [NoRead EXCEPT !.deadline = rtimeout, !.issuedAt = now,
                             !.afterClose = (cst = "closed"),
                             !.pastAtIssue = (rtimeout # 0 /\ rtimeout < now)]
    /\ rpc' = "loop"
    /\ UNCHANGED <<goos, cst, conn, rtimeout, fd, kproto, avail, now, closedAt,
                   raw, last>>
    /\ UNCHANGED <<htonsVars, addrVars, pureVars, kstat>>

\* timeout = readTimeout without a deadline, else min(time.Until(deadline),
\* readTimeout)
ReadTimeoutValue(deadline) ==
    IF deadline = 0 THEN readTimeout ELSE Min(deadline - now, readTimeout)

\* ioctl(fd, BIOCSRTIMEOUT, &tv): EBADF on a closed descriptor, EINVAL for a
\* negative timeval; a zero timeval means no timeout.
SetRTimeout(timeout) ==
    IF fd # "open" THEN RawErr("EBADF")
    ELSE IF timeout < 0 THEN RawErr("EINVAL")
    ELSE NilErr

ReadSetTimeout ==
    /\ rpc = "loop"
    /\ LET timeout == ReadTimeoutValue(rd.deadline)
           ioErr == SetRTimeout(timeout)
       IN  IF ~IsNil(ioErr)
           THEN /\ last' = ReadResult(0, AddrNil, ioErr, ioErr, FALSE)
                /\ rpc' = "idle"
                /\ rd' = NoRead
           ELSE /\ rd' = [rd EXCEPT !.sliceEnd = now + timeout,
                                    !.noTimeout = (timeout = 0)]
                /\ rpc' = "enter"
                /\ last' = last
    /\ UNCHANGED <<goos, cst, conn, rtimeout, fd, kproto, avail, now, closedAt, raw>>
    /\ UNCHANGED <<htonsVars, addrVars, pureVars, kstat>>

\* n, err = syscall.Read(c.c.fd, buf): EBADF when the descriptor is closed by
\* now, else the thread is in the device read, which a later Close does not
\* interrupt.
ReadEnter ==
    /\ rpc = "enter"
    /\ IF fd # "open"
       THEN /\ last' = ReadResult(0 - 1, AddrNil, RawErr("EBADF"), RawErr("EBADF"), FALSE)
            /\ rpc' = "idle"
            /\ rd' = NoRead
       ELSE /\ rpc' = "inread"
            /\ UNCHANGED <<rd, last>>
    /\ UNCHANGED <<goos, cst, conn, rtimeout, fd, kproto, avail, now, closedAt, raw>>
    /\ UNCHANGED <<htonsVars, addrVars, pureVars, kstat>>

\* The byte counts a device read returns: one frame behind its BPF header, or
\* a full device buffer.
DevReadSizes == {bpfLen + FrameLen, conn.buflen}

\* n > 0: mac = buf[bpfl+6 : bpfl+12], out = copy(b, buf[bpfl : bpfl+n]); a
\* slice beyond len(buf) is a run-time panic.
ReadGotFrame ==
    /\ rpc = "inread"
    /\ avail > 0
    /\ \E n \in DevReadSizes, lenB \in BufLens :
        LET bpfl == bpfLen
            paniced == bpfl + 12 > conn.buflen \/ bpfl + n > conn.buflen
        IN  last' = [(IF paniced
                      THEN ReadResult(0, AddrNil, NilErr, NilErr, TRUE)
                      ELSE ReadResult(Min(lenB, n), MkAddr(FrameSrc), NilErr, NilErr,
                                      FALSE))
                        EXCEPT !.devN = n, !.lenB = lenB]
    /\ avail' = avail - 1
    /\ rpc' = "idle"
    /\ rd' = NoRead
    /\ UNCHANGED <<goos, cst, conn, rtimeout, fd, kproto, now, closedAt, raw>>
    /\ UNCHANGED <<htonsVars, addrVars, pureVars, kstat>>

\* n = 0: the timeout passed with no frame
ReadSliceOver ==
    /\ rpc = "inread"
    /\ avail = 0
    /\ ~rd.noTimeout
    /\ now >= rd.sliceEnd
    /\ rpc' = "loop"
    /\ UNCHANGED <<goos, cst, conn, rtimeout, fd, kproto, avail, now, closedAt,
                   rd, raw, last>>
    /\ UNCHANGED <<htonsVars, addrVars, pureVars, kstat>>

(***************************************************************************)
(* The environment: time passes, frames arrive.  The steps of ReadFrom     *)
(* that do not block take no time, and a device read returns as soon as    *)
(* its timeout has passed or a frame is waiting.  A frame arrives while    *)
(* the primitive is open and bound, or while a device read is in progress  *)
(* (the read keeps the device attached after a Close).                     *)
(***************************************************************************)
ReaderMustStep ==
    \/ rpc \in {"loop", "enter"}
    \/ rpc = "inread" /\ avail > 0
    \/ rpc = "inread" /\ ~rd.noTimeout /\ now >= rd.sliceEnd

Tick ==
    /\ cst # "none"
    /\ ~ReaderMustStep
    /\ now < StartMs + MaxTicks * TickMs
    /\ now' = now + TickMs
    /\ UNCHANGED <<goos, cst, conn, rtimeout, fd, kproto, avail, closedAt, rpc,
                   rd, raw, last>>
    /\ UNCHANGED <<htonsVars, addrVars, pureVars, kstat>>

FrameArrives ==
    /\ avail < MaxFrames
    /\ (fd = "open" /\ kproto.bound /\ cst = "open") \/ rpc = "inread"
    /\ goos = "linux" => kstat.packets + kstat.reported < MaxArrivals
    /\ avail' = avail + 1
    /\ kstat' = IF goos = "linux" THEN [kstat EXCEPT !.packets = @ + 1] ELSE kstat
    /\ UNCHANGED <<goos, cst, conn, rtimeout, fd, kproto, now, closedAt, rpc, rd,
                   raw, last>>
    /\ UNCHANGED <<htonsVars, addrVars, pureVars>>

(***************************************************************************)
(* Spec: one Conn, from Listen to after Close, on each platform.           *)
(***************************************************************************)
Init ==
    /\ goos \in Platforms
    /\ cst = "none"
    /\ conn = NoConn
    /\ rtimeout = 0
    /\ fd = "none"
    /\ kproto = Unbound
    /\ avail = 0
    /\ now = StartMs
    /\ closedAt = 0
    /\ rpc = "idle"
    /\ rd = NoRead
    /\ raw = FALSE
    /\ kstat = NoKstat
    /\ last = NoLast
    /\ HtonsIdle
    /\ AddrIdle
    /\ PureIdle

Next ==
    \/ Listen
    \/ FileConn
    \/ LocalAddr
    \/ Stats
    \/ Close
    \/ SetDeadline
    \/ SetReadDeadline
    \/ SetWriteDeadline
    \/ SyscallConn
    \/ RawControl
    \/ RawRead
    \/ RawWrite
    \/ WriteTo
    \/ ReadFromLinux
    \/ ReadStart
    \/ ReadSetTimeout
    \/ ReadEnter
    \/ ReadGotFrame
    \/ ReadSliceOver
    \/ Tick
    \/ FrameArrives

Spec == Init /\ [][Next]_vars

(***************************************************************************)
(* SpecHtons: htons applied to every 16-bit value and to the integers just *)
(* outside the range, on a little-endian and on a big-endian build, and    *)
(* applied once more to its own result.                                    *)
(***************************************************************************)
\* How far below 0 and above MaxUint16 the inputs of htons go.
OutOfRange == 3

HtonsInputs == (0 - OutOfRange) .. (MaxUint16 + OutOfRange)

HtonsInit ==
    /\ hostLE \in BOOLEAN
    /\ hIn \in HtonsInputs
    /\ hRes = NoResult
    /\ hBack = NoResult
    /\ hPc = "in"
    /\ AddrIdle
    /\ ConnIdle
    /\ PureIdle

\* v, err := htons(i)
HtonsCall ==
    /\ hPc = "in"
    /\ hRes' = htons(hIn)
    /\ hPc' = "out"
    /\ UNCHANGED <<hostLE, hIn, hBack>>
    /\ UNCHANGED <<addrVars, connVars, pureVars>>

\* w, err := htons(int(v)): the conversion applied to its own result
HtonsBack ==
    /\ hPc = "out"
    /\ hRes.err = "nil"
    /\ hBack' = htons(hRes.v)
    /\ hPc' = "back"
    /\ UNCHANGED <<hostLE, hIn, hRes>>
    /\ UNCHANGED <<addrVars, connVars, pureVars>>

HtonsNext == HtonsCall \/ HtonsBack

SpecHtons == HtonsInit /\ [][HtonsNext]_vars

(***************************************************************************)
(* Properties of htons.                                                    *)
(***************************************************************************)
\* binary.BigEndian.PutUint16: the two bytes of a 16-bit value, high byte first.
BigEndianBytes(i) == <<i \div 256, i % 256>>

\* native.Endian.Uint16: the value a host of the given byte order reads from
\* two bytes in memory.
NativeUint16(b, le) == IF le THEN b[1] + 256 * b[2] ELSE 256 * b[1] + b[2]

HtonsDone == hPc \in {"out", "back"}

\* C4: htons(i) returns an error for every i outside [0, 65535], negative or
\* too large, and returns no error for every i inside [0, 65535].
C4_HtonsRejectsOutOfRange ==
    HtonsDone => ((hRes.err # "nil") <=> (hIn < 0 \/ hIn > MaxUint16))

\* C5: for every i in [0, 65535], htons applied to htons(i) succeeds and
\* yields i again: the conversion is an involution on 16-bit values.
C5_HtonsInvolution ==
    (hPc = "back" /\ hIn \in 0 .. MaxUint16) =>
        /\ hRes.v \in 0 .. MaxUint16
        /\ hBack.err = "nil"
        /\ hBack.v = hIn

\* 0x86dd converted to 0xdd86 and back to 0x86dd.
C5_Witness ==
    /\ hPc = "back"
    /\ hIn = 34525
    /\ hRes.v = 56710
    /\ hBack = [v |-> 34525, err |-> "nil"]

\* C6: for every i in [0, 65535], htons(i) is the 16-bit value whose
\* host-native representation is the big-endian encoding of i: the bytes of i
\* swapped on a little-endian host, i unchanged on a big-endian host.
C6_HtonsNativeOrder ==
    (HtonsDone /\ hIn \in 0 .. MaxUint16) =>
        /\ hRes.err = "nil"
        /\ hRes.v = NativeUint16(BigEndianBytes(hIn), hostLE)

(***************************************************************************)
(* SpecAddr: toSockaddr applied to addresses of every kind and length, and *)
(* fromSockaddr applied to the sockaddr it built.                          *)
(***************************************************************************)
\* The longest hardware address tried.
MaxHwLen == 21

\* The byte patterns tried: byte k of an address is base + k * step (mod 256),
\* so a step that is not 0 makes every position distinguishable.
AddrBases == {0, 1, 250}
AddrSteps == {0, 1, 7}

PatternAddr(len, base, step) == [k \in 1 .. len |-> (base + k * step) % 256]

HwInputs ==
    {PatternAddr(len, base, step) :
        len \in 0 .. MaxHwLen, base \in AddrBases, step \in AddrSteps}

AddrInputs == {MkAddr(hw) : hw \in HwInputs} \cup {AddrNilHw, AddrOther}

\* c.ifIndex and c.protocol (wire order) of the Conn doing the conversion
MetaInputs == {[ifIndex |-> 1, protocol |-> 8], [ifIndex |-> 2, protocol |-> 56710]}

AddrInit ==
    /\ aIn \in AddrInputs
    /\ aMeta \in MetaInputs
    /\ aEnc = <<>>
    /\ aDec = <<>>
    /\ aPc = "in"
    /\ HtonsIdle
    /\ ConnIdle
    /\ PureIdle

\* sa, err := c.toSockaddr("sendto", addr)
AddrEncode ==
    /\ aPc = "in"
    /\ aEnc' = toSockaddr("sendto", aIn, aMeta.ifIndex, aMeta.protocol)
    /\ aPc' = "enc"
    /\ UNCHANGED <<aIn, aMeta, aDec>>
    /\ UNCHANGED <<htonsVars, connVars, pureVars>>

\* fromSockaddr(sa) on the sockaddr that was built
AddrDecode ==
    /\ aPc = "enc"
    /\ IsNil(aEnc.err)
    /\ aDec' = fromSockaddr(aEnc.sa)
    /\ aPc' = "dec"
    /\ UNCHANGED <<aIn, aMeta, aEnc>>
    /\ UNCHANGED <<htonsVars, connVars, pureVars>>

AddrNext == AddrEncode \/ AddrDecode

SpecAddr == AddrInit /\ [][AddrNext]_vars

(***************************************************************************)
(* Properties of the address codec.                                        *)
(***************************************************************************)
\* The longest link-layer address the claim counts as encodable: a 20-byte
\* (IPoIB) address.
ClaimedMaxLen == 20

AddrEncoded == aPc \in {"enc", "dec"}

\* The round trip of an address no longer than max, and the rejection of a
\* longer one.
RoundTripUpTo(max) ==
    (AddrEncoded /\ aIn.kind = "Addr" /\ ~aIn.nilHw) =>
        IF Len(aIn.hw) <= max
        THEN /\ IsNil(aEnc.err)
             /\ ~aEnc.sa.nil
             /\ aEnc.sa.Halen = Len(aIn.hw)
             /\ aPc = "dec" => (aDec.kind = "Addr" /\ ~aDec.nilHw /\ aDec.hw = aIn.hw)
        ELSE /\ IsEINVAL(aEnc.err)
             /\ aEnc.sa.nil

\* C8 (as claimed): every hardware address of length L up to the maximum
\* link-address length, 6-byte Ethernet up to 20-byte link types, encodes with
\* reported length L and decodes to the original L bytes; every longer address
\* is rejected with EINVAL.
C8_RoundTripUpTo20 == RoundTripUpTo(ClaimedMaxLen)

\* C8 (amended): every hardware address of length L up to 8 bytes, the
\* capacity of the sockaddr's address array, encodes with reported length L and
\* decodes to exactly the original L bytes; every address longer than 8 bytes,
\* a 20-byte one included, is rejected with EINVAL and never clipped.
C8_RoundTripUpTo8 == RoundTripUpTo(SockaddrAddrLen)

\* An 8-byte address with distinct bytes has gone through both conversions.
C8_Witness ==
    /\ aPc = "dec"
    /\ aIn.kind = "Addr"
    /\ Len(aIn.hw) = SockaddrAddrLen
    /\ aIn.hw[1] # aIn.hw[SockaddrAddrLen]
    /\ aEnc.sa.Halen = SockaddrAddrLen
    /\ aDec.hw = aIn.hw

(***************************************************************************)
(* Properties of the Conn operations.                                      *)
(***************************************************************************)
\* A closed-connection error: the descriptor is reported closed or invalid.
IsClosedErr(err) == err.cause \in {"EBADF", "ErrClosed"}

IsTimeout(err) == err.cause = "i/o timeout"

\* A destination WriteTo must refuse: not an *Addr, no hardware address, or
\* longer than the sockaddr's address array.
BadDest(a) == a.kind # "Addr" \/ a.nilHw \/ Len(a.hw) > SockaddrAddrLen

\* C1: once Close has returned, every later ReadFrom, WriteTo (to a well-formed
\* destination), SetDeadline, SetReadDeadline, SetWriteDeadline and
\* SyscallConn fails with a closed-connection error, on every driver; none
\* reports success.
C1_OpsAfterCloseFail ==
    (/\ last.afterClose
     /\ last.op \in {"ReadFrom", "WriteTo", "SetDeadline", "SetReadDeadline",
                     "SetWriteDeadline", "SyscallConn"}
     /\ last.op = "WriteTo" => ~BadDest(last.dest))
        => (~IsNil(last.err) /\ IsClosedErr(last.err))

\* The operation name each method reports in its error.
ExpectedOp(method) ==
    CASE method \in {"Listen", "FileConn"} -> opListen
      [] method = "Close" -> opClose
      [] method = "ReadFrom" -> opRead
      [] method = "WriteTo" -> opWrite
      [] method \in {"SetDeadline", "SetReadDeadline", "SetWriteDeadline"} -> opSet
      [] method = "SyscallConn" -> opSyscallConn
      [] method = "Control" -> opRawControl
      [] method = "Read" -> opRawRead
      [] method = "Write" -> opRawWrite

\* The local address an operation's error carries: the interface's hardware
\* address for Listen, the Conn's addr (what LocalAddr returns) otherwise.
ExpectedLocal(method) ==
    IF method = "Listen" THEN MkAddr(Ifi.HardwareAddr)
    ELSE IF method = "FileConn" THEN AddrNil
    ELSE conn.addr

\* C2: every error a Conn operation returns, on every driver, is the raw
\* cause wrapped exactly once in an operation error carrying the operation
\* name, the network "packet" and the local address; a nil raw cause gives a
\* nil error.
C2_ErrorsWrappedOnce ==
    (last.op \notin {"none", "LocalAddr", "Stats"} /\ ~last.paniced) =>
        IF IsNil(last.rawErr)
        THEN IsNil(last.err)
        ELSE /\ Len(last.err.wraps) = 1
             /\ last.err.wraps[1] = [Op |-> ExpectedOp(last.op), Net |-> "packet",
                                     Addr |-> ExpectedLocal(last.op)]
             /\ last.err.cause = last.rawErr.cause
             /\ last.err.syscall = last.rawErr.syscall

\* C3: Listen with a protocol outside 0 .. 65535 fails on every driver: no
\* Conn is returned and the primitive is never bound to, or made to filter
\* on, a truncated or wrapped protocol value.
C3_ListenRejectsBadProtocol ==
    (last.op = "Listen" /\ last.proto \notin 0 .. MaxUint16) =>
        /\ ~IsNil(last.err)
        /\ ~last.conn
        /\ cst = "failed"
        /\ ~kproto.bound

\* C7: WriteTo with a destination that is missing, not of the Conn's Addr
\* kind or longer than the maximum link-address length returns
\* invalid-argument with a byte count of 0 and issues no send, on every
\* driver.
C7_WriteToRejectsBadDest ==
    (last.op = "WriteTo" /\ BadDest(last.dest)) =>
        /\ IsEINVAL(last.err)
        /\ last.n = 0
        /\ ~last.sent

\* A ReadFrom on the BSD family that returned without a frame.
ReadWithoutFrame ==
    /\ IsBSD
    /\ last.op = "ReadFrom"
    /\ ~last.paniced
    /\ ~(IsNil(last.err) /\ last.n > 0)

\* C9: on the BSD driver, a ReadFrom issued on an open Conn while the read
\* deadline is already in the past, and returning no frame, returns a
\* timeout-class error within one poll slice (200 ms).
C9_PastDeadlineTimesOut ==
    (/\ ReadWithoutFrame
     /\ last.pastAtIssue
     /\ ~last.afterClose
     /\ ~last.closedDuring)
        => (IsTimeout(last.err) /\ last.elapsed <= readTimeout)

\* C10: on the BSD driver, when Close returns while another thread is blocked
\* in the device read of a ReadFrom, that ReadFrom returns an error within one
\* poll slice (200 ms) of the Close and returns no frame data.
C10_CloseUnblocksRead ==
    (/\ IsBSD
     /\ last.op = "ReadFrom"
     /\ last.closedWhileBlocked
     /\ ~last.paniced)
        => /\ ~IsNil(last.err)
           /\ last.n <= 0
           /\ last.sinceClose <= readTimeout

\* An unsupported-operation error: errUnimplemented, wrapped or not.
IsUnsupported(err) == err.cause = errUnimplemented.cause

\* C11: on the BSD driver every operation that sets a write deadline,
\* SetWriteDeadline and SetDeadline, returns an unsupported-operation error:
\* the write deadline is never silently ignored.
C11_WriteDeadlineUnsupported ==
    (IsBSD /\ last.op \in {"SetWriteDeadline", "SetDeadline"} /\ ~last.afterClose)
        => IsUnsupported(last.err)

(***************************************************************************)
(* setBPFDirection on every platform variant of the capture-device driver: *)
(* direction_bsd.go (darwin, dragonfly, freebsd, netbsd: BIOCSSEESENT) and *)
(* the OpenBSD variant (BIOCSDIRFILT).                                     *)
(***************************************************************************)
DirPlatforms == {"darwin", "dragonfly", "freebsd", "netbsd", "openbsd"}

\* The Direction constant whose value is 0; "none": the constants start at 1.
DirZeroInputs == Directions \cup {"none"}

\* syscall.BPF_DIRECTION_IN, syscall.BPF_DIRECTION_OUT (OpenBSD)
BPF_DIRECTION_IN == 1
BPF_DIRECTION_OUT == 2

\* setBPFDirection (OpenBSD): DirectionIn is refused; the first switch sets
\* dirfilt to 1 for DirectionInOut and 0 for DirectionOut, the second
\* overwrites it with BPF_DIRECTION_OUT when the direction's value is 0.
setBPFDirectionOpenBSD(direction, zero) ==
    IF direction = "DirectionIn"
    THEN [err |-> RawErr("DirectionIn is not supported"), called |-> FALSE, dirfilt |-> 0]
    ELSE LET first == IF direction = "DirectionInOut" THEN 1 ELSE 0
         IN  [err |-> NilErr, called |-> TRUE,
              dirfilt |-> IF direction = zero THEN BPF_DIRECTION_OUT ELSE first]

\* What the device captures after BIOCSSEESENT with value v: received frames,
\* and sent frames when v is not 0.
SeeSentCaptures(v) == IF v = 0 THEN {"in"} ELSE {"in", "out"}

\* What the device captures after BIOCSDIRFILT with mask m: the mask names
\* the directions that are filtered out.
DirFiltCaptures(m) ==
    (IF BitAnd(m, BPF_DIRECTION_IN) = 0 THEN {"in"} ELSE {})
        \cup (IF BitAnd(m, BPF_DIRECTION_OUT) = 0 THEN {"out"} ELSE {})

Captures(os, v) == IF os = "openbsd" THEN DirFiltCaptures(v) ELSE SeeSentCaptures(v)

\* The device values the control call accepts.
ValidDirValues(os) == IF os = "openbsd" THEN 0 .. 3 ELSE 0 .. 1

\* The traffic a logical direction asks for.
Wanted(direction) ==
    CASE direction = "DirectionIn" -> {"in"}
      [] direction = "DirectionOut" -> {"out"}
      [] direction = "DirectionInOut" -> {"in", "out"}

\* setBPFDirection of the build for os
setBPFDirectionOn(os, direction, zero) ==
    IF os = "openbsd"
    THEN setBPFDirectionOpenBSD(direction, zero)
    ELSE setBPFDirection(direction)

NoDirResult == [err |-> NilErr, called |-> FALSE, dirfilt |-> 0]

DirInit ==
    /\ dirH \in [os : DirPlatforms, zero : DirZeroInputs, direction : Directions,
                 fail : BOOLEAN, pc : {"in"}, res : {NoDirResult}]
    /\ fltH = <<>>
    /\ lsH = <<>>
    /\ raceH = <<>>
    /\ muH = <<>>
    /\ HtonsIdle
    /\ AddrIdle
    /\ ConnIdle

\* One call of setBPFDirection; the control call fails when fail is set.
DirCall ==
    /\ dirH.pc = "in"
    /\ LET r == setBPFDirectionOn(dirH.os, dirH.direction, dirH.zero)
           err == IF r.called /\ dirH.fail THEN RawErr("ENXIO") ELSE r.err
       IN  dirH' = [dirH EXCEPT !.pc = "done", !.res = [r EXCEPT !.err = err]]
    /\ UNCHANGED <<htonsVars, addrVars, connVars, fltH, lsH, raceH, muH>>

DirNext == DirCall

SpecDir == DirInit /\ [][DirNext]_vars

\* An explicit unsupported-direction error.
IsDirUnsupported(err) ==
    err.cause \in {"DirectionIn is not supported", "DirectionOut is not supported"}

\* C12: on each BSD platform variant each logical direction either programs
\* a valid device value that realises that direction, or returns an explicit
\* unsupported error without issuing the control call; and two different
\* supported directions never program the same device value.
C12_DirectionMapping ==
    (dirH # <<>> /\ dirH.pc = "done") =>
        LET r == dirH.res
        IN  /\ r.called =>
                /\ r.dirfilt \in ValidDirValues(dirH.os)
                /\ Captures(dirH.os, r.dirfilt) = Wanted(dirH.direction)
            /\ ~r.called => IsDirUnsupported(r.err)
            /\ \A d2 \in Directions \ {dirH.direction} :
                LET r2 == setBPFDirectionOn(dirH.os, d2, dirH.zero)
                IN  (r.called /\ r2.called) => r.dirfilt # r2.dirfilt

\* C13: no public operation panics or ends the caller's process, for any
\* input or OS-level failure: every failure comes back as an error value.
C13_NoPanic == last.op # "none" => ~last.paniced

\* The OS calls that open a socket or a capture device.
OpensPrimitive(log) == \E k \in 1 .. Len(log) : log[k] \in {"socket", "open"}

\* C14: Listen with a socket type that is neither Raw nor Datagram (the zero
\* value of Type included) returns an error and no Conn, and opens no socket
\* or capture device.
C14_ListenRejectsBadType ==
    (last.op = "Listen" /\ last.stype \notin {Raw, Datagram}) =>
        /\ ~IsNil(last.err)
        /\ ~last.conn
        /\ ~OpensPrimitive(last.klog)

(***************************************************************************)
(* SpecFilter: conn.SetBPF applied to caller programs, and the interface   *)
(* filter of a Conn run on the frames of the interface.                    *)
(***************************************************************************)
\* 0x0800, 0x0806, 0x86dd and 0x0008
FltProtocols == {2048, 2054, 34525, 8}
FltEtherTypes == {2048, 2054, 8}
FltFrameLens == {14, 60, 1514}
FltMtus == {576, 1500}

\* The instructions caller programs are made of.
UserInsns ==
    {RetConstant(0), RetConstant(96), LoadAbsolute(23, 1), JumpIfEqual(17, 0, 1)}

\* The longest caller program.
MaxUserLen == 2

UserFilters == UNION {[1 .. n -> UserInsns] : n \in 0 .. MaxUserLen}

NoSetBPF == [insns |-> <<>>, err |-> NilErr]
NoCapture == [verdict |-> 0, stored |-> FALSE, caplen |-> 0]

FltInit ==
    /\ fltH \in [proto : FltProtocols, mtu : FltMtus, user : UserFilters,
                 frame : [len : FltFrameLens, et : FltEtherTypes],
                 pc : {"in"}, set : {NoSetBPF}, cap : {NoCapture}]
    /\ dirH = <<>>
    /\ lsH = <<>>
    /\ raceH = <<>>
    /\ muH = <<>>
    /\ HtonsIdle
    /\ AddrIdle
    /\ ConnIdle

\* c.SetBPF(user) on a Conn of protocol proto
FltSetBPF ==
    /\ fltH.pc = "in"
    /\ fltH' = [fltH EXCEPT !.pc = "set", !.set = SetBPF(fltH.proto, fltH.user)]
    /\ UNCHANGED <<htonsVars, addrVars, connVars, dirH, lsH, raceH, muH>>

\* a frame reaches the device of a Conn of protocol proto
FltCapture ==
    /\ fltH.pc = "in"
    /\ fltH' = [fltH EXCEPT !.pc = "done",
                            !.cap = Capture(InterfaceProg(fltH.proto, fltH.mtu),
                                            fltH.frame)]
    /\ UNCHANGED <<htonsVars, addrVars, connVars, dirH, lsH, raceH, muH>>

FltNext == FltSetBPF \/ FltCapture

SpecFilter == FltInit /\ [][FltNext]_vars

(***************************************************************************)
(* Properties of the classifier programs.                                  *)
(***************************************************************************)
\* SetBPF has been applied: the program is base-then-caller, B + N long.
ComposedInOrder ==
    LET base == assembleBpfInsn(baseFilter(fltH.proto))
        B == Len(base)
        N == Len(fltH.user)
        prog == fltH.set.insns
    IN  /\ Len(prog) = B + N
        /\ SubSeq(prog, 1, B) = base
        /\ \A k \in 1 .. N : prog[B + k] = assembleBpfInsn(fltH.user)[k]

\* The instructions a jump at index k of prog can go to.
JumpTargets(prog, k) == {k + 1 + prog[k].Jt, k + 1 + prog[k].Jf}

\* C15: composing the base filter (B instructions) with a caller program of
\* N >= 0 instructions gives exactly B + N instructions, the base program
\* first, then the caller's instructions unchanged and in order, and every
\* jump of the base program targets an instruction inside the base segment.
C15_ComposeJumpsInsideBase ==
    (fltH # <<>> /\ fltH.pc = "set") =>
        LET B == Len(baseFilter(fltH.proto))
            prog == fltH.set.insns
        IN  /\ ComposedInOrder
            /\ \A k \in 1 .. B :
                prog[k].Code = "jeq" => JumpTargets(prog, k) \subseteq 1 .. B

\* C15, amended: the same composition; the jump of the base program goes, on
\* a mismatch, to the drop instruction inside the base segment and, on a
\* match, to the instruction right after the base segment: the first caller
\* instruction, or the end of the program when N = 0.
C15_ComposeFallsThrough ==
    (fltH # <<>> /\ fltH.pc = "set") =>
        LET B == Len(baseFilter(fltH.proto))
            prog == fltH.set.insns
        IN  /\ ComposedInOrder
            /\ \A k \in 1 .. B :
                prog[k].Code = "jeq" =>
                    /\ k + 1 + prog[k].Jf \in 1 .. B
                    /\ prog[k + 1 + prog[k].Jf].Code = "ret"
                    /\ prog[k + 1 + prog[k].Jf].K = 0
                    /\ k + 1 + prog[k].Jt = B + 1

\* A caller program of two different instructions was composed and installed.
C15_Witness ==
    /\ fltH # <<>>
    /\ fltH.pc = "set"
    /\ Len(fltH.user) = 2
    /\ fltH.user[1] # fltH.user[2]
    /\ Len(fltH.set.insns) = 5
    /\ IsNil(fltH.set.err)

\* C16: for every protocol p and every Ethernet frame, the interface filter
\* (base filter plus MTU cap) gives verdict 0, and the device stores nothing,
\* when the 2-byte field at offset 12 differs from p, and accepts up to mtu
\* bytes when it equals p: on a Conn for 0x0800 a frame with EtherType 0x0800
\* is stored for the reads and one with EtherType 0x0806 never is.
C16_InterfaceFilterVerdict ==
    (fltH # <<>> /\ fltH.pc = "done" /\ fltH.frame.len >= 14) =>
        IF fltH.frame.et # fltH.proto
        THEN fltH.cap.verdict = 0 /\ ~fltH.cap.stored
        ELSE /\ fltH.cap.verdict = fltH.mtu
             /\ fltH.cap.stored
             /\ fltH.cap.caplen = Min(fltH.frame.len, fltH.mtu)

\* A Conn for 0x0800 was offered a frame with EtherType 0x0806.
C16_Witness ==
    /\ fltH # <<>>
    /\ fltH.pc = "done"
    /\ fltH.proto = 2048
    /\ fltH.frame.et = 2054
    /\ ~fltH.cap.stored

\* C17: on the BSD driver a successful ReadFrom returns the captured frame
\* without the capture header: the byte count is the number of bytes read
\* from the device minus the header length, capped at the length of the
\* caller's buffer; the header length is one of the two fixed values 18 and
\* 26; the source address is the one in bytes 6..11 of the frame.
C17_ReadStripsHeader ==
    (IsBSD /\ last.op = "ReadFrom" /\ ~last.paniced /\ IsNil(last.err) /\ last.devN > 0)
        => /\ bpfLen \in {bpfHeaderLen, bpfXHeaderLen}
           /\ last.n = Min(last.lenB, last.devN - bpfLen)
           /\ last.from = MkAddr(FrameSrc)

\* C18: after a successful Listen, on any supported driver, every LocalAddr
\* returns the same non-nil address, the hardware address of the bound
\* interface, whatever ReadFrom, WriteTo, deadline setter or Close came
\* before it.
C18_LocalAddrIsInterfaceAddr ==
    last.op = "LocalAddr" =>
        /\ last.from.kind = "Addr"
        /\ ~last.from.nilHw
        /\ last.from.hw = Ifi.HardwareAddr

\* C19: on a platform with no driver, Listen and FileConn always fail with
\* the unsupported-operation error wrapped as a "listen" operation error and
\* never return a Conn, whatever the interface, socket type, protocol and
\* config.
C19_NoDriverUnsupported ==
    (~IsBSD /\ goos # "linux" /\ last.op \in {"Listen", "FileConn"}) =>
        /\ ~last.paniced
        /\ ~last.conn
        /\ cst = "failed"
        /\ fd = "none"
        /\ IsUnsupported(last.err)
        /\ Len(last.err.wraps) = 1
        /\ last.err.wraps[1].Op = opListen
        /\ last.err.wraps[1].Net = network

\* Listen for a Raw socket on 0x0800 was refused on a platform with no driver.
C19_Witness ==
    /\ goos = "windows"
    /\ last.op = "Listen"
    /\ last.stype = Raw
    /\ last.proto = 2048
    /\ IsUnsupported(last.err)
    /\ ~last.conn

\* What C20 says of a Stats on the BSD driver: an explicit unsupported error
\* and no counters value.
StatsUnsupported == IsUnsupported(last.err) /\ last.stats.nil

LsFilters == {<<>>, <<RetConstant(0)>>}

LsCfgInputs == [Filter : LsFilters, Direction : Directions]

\* 0x0800 and 0x0806
LsEtherTypes == {2048, 2054}

\* The frame the interface carries while a device is being configured.
StaleFrame == [len |-> 60, et |-> 2054, stale |-> TRUE]

\* The frames that arrive after listen has returned.
LsFrames == [len : {60}, et : LsEtherTypes, stale : {FALSE}]

\* The buffer of the device after the calls log[k..] of configureBPF, the
\* last of which failed when it is fail: attaching the device to the
\* interface lets the frames on the interface in, BIOCFLUSH empties it.
RECURSIVE BufferAfter(_, _, _, _, _)
BufferAfter(log, k, fail, arrivals, buf) ==
    IF k > Len(log) \/ log[k] = fail
    THEN buf
    ELSE BufferAfter(log, k + 1, fail, arrivals,
                     CASE log[k] = "setif" -> arrivals
                       [] log[k] = "flush" -> <<>>
                       [] OTHER -> buf)

\* What the primitive does with a frame from the interface: a packet socket
\* takes the frames of the protocol it is bound to that its filter keeps, a
\* capture device the frames its program keeps.
PrimitiveStores(res, frame) ==
    IF goos = "linux"
    THEN /\ res.kproto.bound
         /\ res.kproto.proto = htons(frame.et).v
         /\ (Len(res.prog) > 0 =>
                RunFilter(assembleBpfInsn(res.prog), frame) > 0)
    ELSE Len(res.prog) > 0 => Capture(res.prog, frame).stored

NoListen == ListenResult(NoConn, NilErr, "none", Unbound, <<>>)

AllFree == [i \in 0 .. MaxDev |-> "free"]

LsInit ==
    /\ goos \in Platforms
    /\ lsH \in [socketType : SocketTypes, protocol : ProtocolInputs,
                cfg : LsCfgInputs,
                devs : IF IsBSD THEN [0 .. MaxDev -> DevStates] ELSE {AllFree},
                fail : FailPoints,
                arrivals : IF IsBSD THEN {<<>>, <<StaleFrame>>} ELSE {<<>>},
                pc : {"in"}, res : {NoListen}, buf : {<<>>}, read : {<<>>}]
    /\ cst = "idle"
    /\ kstat = <<>>
    /\ conn = <<>>
    /\ rtimeout = 0
    /\ fd = "none"
    /\ kproto = <<>>
    /\ avail = 0
    /\ now = 0
    /\ closedAt = 0
    /\ rpc = "idle"
    /\ rd = <<>>
    /\ raw = FALSE
    /\ last = <<>>
    /\ dirH = <<>>
    /\ fltH = <<>>
    /\ raceH = <<>>
    /\ muH = <<>>
    /\ HtonsIdle
    /\ AddrIdle

\* listen(ifi, socketType, protocol, cfg)
LsListen ==
    /\ lsH.pc = "in"
    /\ LET r == listen(lsH.socketType, lsH.protocol, lsH.cfg, lsH.devs, lsH.fail)
       IN  lsH' = [lsH EXCEPT !.pc = "done", !.res = r,
                              !.buf = BufferAfter(r.klog, 1, lsH.fail,
                                                  lsH.arrivals, <<>>)]
    /\ UNCHANGED <<htonsVars, addrVars, connVars, dirH, fltH, raceH, muH>>

\* a frame reaches the primitive of the Conn that listen returned
LsFrame ==
    /\ lsH.pc = "done"
    /\ IsNil(lsH.res.err)
    /\ \E frame \in LsFrames :
        lsH' = [lsH EXCEPT !.pc = "frame",
                           !.buf = IF PrimitiveStores(lsH.res, frame)
                                   THEN Append(@, frame) ELSE @]
    /\ UNCHANGED <<htonsVars, addrVars, connVars, dirH, fltH, raceH, muH>>

\* ReadFrom returns the oldest frame the primitive holds
LsRead ==
    /\ lsH.pc \in {"frame", "read"}
    /\ Len(lsH.buf) > 0
    /\ lsH' = [lsH EXCEPT !.pc = "read", !.read = Append(@, Head(lsH.buf)),
                          !.buf = Tail(@)]
    /\ UNCHANGED <<htonsVars, addrVars, connVars, dirH, fltH, raceH, muH>>

LsNext == LsListen \/ LsFrame \/ LsRead

SpecListen == LsInit /\ [][LsNext]_vars

LsDone == lsH # <<>> /\ lsH.pc # "in"

(***************************************************************************)
(* Establishment on Linux                                                  *)
(***************************************************************************)
\* The OS calls of a Linux establishment that meets no error.
LinuxCalls(filter) ==
    <<"socket">> \o (IF Len(filter) > 0 THEN <<"setbpf">> ELSE <<>>)
                 \o <<"bind", "getsockname">>

\* log up to its closing call
BeforeClose(log) ==
    IF Len(log) > 0 /\ log[Len(log)] = "close" THEN SubSeq(log, 1, Len(log) - 1) ELSE log

IsPrefix(a, b) == Len(a) <= Len(b) /\ SubSeq(b, 1, Len(a)) = a

\* C21: a Linux establishment calls socket(2) with protocol 0, then installs
\* the caller's filter when the Config has one, then binds to the interface
\* index and the protocol in network order, then reads the local address
\* back; a call is made only when the one before it succeeded, and a bound
\* socket has the caller's filter installed.
C21_LinuxEstablishmentOrder ==
    (LsDone /\ goos = "linux" /\ lsH.res.klog # <<>>) =>
        LET r == lsH.res
            calls == BeforeClose(r.klog)
            full == LinuxCalls(lsH.cfg.Filter)
        IN  /\ r.sproto = 0
            /\ IsPrefix(calls, full)
            /\ IsNil(r.err) => calls = full
            /\ \A k \in 1 .. Len(calls) : calls[k] = lsH.fail => k = Len(calls)
            /\ r.kproto.bound =>
                /\ r.prog = lsH.cfg.Filter
                /\ r.kproto.proto = htons(lsH.protocol).v
            /\ IsNil(r.err) =>
                /\ r.conn.ifIndex = Ifi.Index
                /\ r.conn.addr = MkAddr(Ifi.HardwareAddr)

C21_Witness ==
    /\ LsDone
    /\ goos = "linux"
    /\ Len(lsH.cfg.Filter) > 0
    /\ IsNil(lsH.res.err)
    /\ lsH.res.klog = <<"socket", "setbpf", "bind", "getsockname">>
    /\ lsH.res.kproto.bound

(***************************************************************************)
(* Establishment on the BSD family                                         *)
(***************************************************************************)
\* The scan opened a device.
DeviceOpened(r) == \E k \in 1 .. Len(r.tried) : r.tried[k].res = "free"

\* The calls listen made on the device it opened.
DeviceCalls(r) == SubSeq(r.klog, Len(r.tried) + 1, Len(r.klog))

\* C22: the device is configured by (a) binding it to the interface, (b)
\* immediate mode, (c) reading the buffer size, (d) header-complete mode,
\* (e) the direction, (f) the classifier program, (g) the flush, in this
\* order; a failing step is the last one made and its error is what listen
\* returns; and ReadFrom never returns a frame that the device buffered
\* while it was being configured.
C22_DeviceConfigurationOrder ==
    (LsDone /\ IsBSD /\ DeviceOpened(lsH.res)) =>
        LET r == lsH.res
            calls == DeviceCalls(r)
            full == <<"setif", "immediate", "buflen", "hdrcmpl", "direction",
                      "setbpf", "flush">>
            unsupported == lsH.cfg.Direction = "DirectionOut"
        IN  /\ IsPrefix(calls, full)
            /\ IsNil(r.err) <=> (calls = full /\ lsH.fail = "none")
            /\ \A k \in 1 .. Len(calls) :
                calls[k] = lsH.fail =>
                    /\ k = Len(calls)
                    /\ r.err = RawErr("ENXIO")
                    /\ r.conn.buflen = 0
            /\ (~IsNil(r.err) /\ r.err # RawErr("ENXIO")) =>
                /\ unsupported
                /\ calls = SubSeq(full, 1, 4)
            /\ IsNil(r.err) =>
                /\ \A k \in 1 .. Len(lsH.buf) : ~lsH.buf[k].stale
                /\ \A k \in 1 .. Len(lsH.read) : ~lsH.read[k].stale

C22_Witness ==
    /\ LsDone
    /\ goos = "darwin"
    /\ lsH.arrivals = <<StaleFrame>>
    /\ IsNil(lsH.res.err)
    /\ Len(DeviceCalls(lsH.res)) = 7
    /\ lsH.pc = "read"
    /\ Len(lsH.read) = 1

\* sub occurs in prog as a run of consecutive instructions
HasRun(prog, sub) ==
    \E off \in 0 .. Len(prog) - Len(sub) :
        SubSeq(prog, off + 1, off + Len(sub)) = sub

\* C23: when the Config handed to Listen has a caller program, the program
\* on the device after configuration holds the EtherType check, the MTU cap
\* and the caller's instructions, and ReadFrom returns no frame that the
\* caller's program rejects.
C23_CallerProgramInstalled ==
    (LsDone /\ IsBSD /\ IsNil(lsH.res.err) /\ Len(lsH.cfg.Filter) > 0) =>
        LET r == lsH.res
            caller == assembleBpfInsn(lsH.cfg.Filter)
        IN  /\ HasRun(r.prog, InterfaceProg(r.conn.protocol, Ifi.MTU))
            /\ HasRun(r.prog, caller)
            /\ \A k \in 1 .. Len(lsH.read) : RunFilter(caller, lsH.read[k]) > 0

\* Every device below k reports busy.
BusyBelow(devs, k) == \A j \in 0 .. k - 1 : devs[j] = "busy"

\* listen left device k open.
Owns(r, k) ==
    /\ r.fd = "open"
    /\ Len(r.tried) > 0
    /\ r.tried[Len(r.tried)] = [idx |-> k, res |-> "free"]

\* C24: the scan tries /dev/bpf0, /dev/bpf1, ... in this order; device k
\* becomes the one listen owns exactly when every device below k is busy
\* and device k opens; an open that fails for another reason ends listen
\* with that error and no further device is tried.
C24_ScanInIndexOrder ==
    (LsDone /\ IsBSD) =>
        LET r == lsH.res
            devs == lsH.devs
        IN  /\ \A k \in 1 .. Len(r.tried) :
                r.tried[k] = [idx |-> k - 1, res |-> devs[k - 1]]
            /\ \A k \in 0 .. MaxDev :
                Owns(r, k) <=> (BusyBelow(devs, k) /\ devs[k] = "free")
            /\ \A j \in 0 .. MaxDev :
                (BusyBelow(devs, j) /\ devs[j] = "eacces") =>
                    /\ r.err = NewSyscallError("open", "EACCES")
                    /\ r.conn = NoConn
                    /\ Len(r.tried) = j + 1
                    /\ r.fd = "none"

C24_Witness ==
    /\ LsDone
    /\ goos = "freebsd"
    /\ lsH.devs[0] = "busy"
    /\ lsH.devs[1] = "free"
    /\ lsH.devs[2] = "eacces"
    /\ Owns(lsH.res, 1)
    /\ IsNil(lsH.res.err)

(***************************************************************************)
(* SpecRace: several establishments of the BSD driver at once, each on its *)
(* own thread, over one table of capture devices.  The OS grants an open   *)
(* of /dev/bpf<i> to one opener at a time (EBUSY for the others); devices  *)
(* can also be held by other programs.  An establishment e is at           *)
(*   "idle"       before Listen                                            *)
(*   "scan"       in the loop of listen, about to open device i[e]         *)
(*   "configure"  device opened, before configureBPF                       *)
(*   "live"       Listen returned a Conn                                   *)
(*   "closed"     Close returned                                           *)
(*   "failed"     Listen returned an error                                 *)
(***************************************************************************)
\* The number of establishments.
NumEst == 2

Ests == 1 .. NumEst

\* Owners of a device: nobody, an establishment, another program.
Free == 0
Foreign == NumEst + 1

NoDev == 0 - 1

RaceInit ==
    /\ raceH \in [owner : [0 .. MaxDev -> {Free, Foreign}],
                  pc : {[e \in Ests |-> "idle"]},
                  i : {[e \in Ests |-> 0]},
                  dev : {[e \in Ests |-> NoDev]},
                  tried : {[e \in Ests |-> <<>>]},
                  err : {[e \in Ests |-> NilErr]}]
    /\ dirH = <<>>
    /\ fltH = <<>>
    /\ lsH = <<>>
    /\ muH = <<>>
    /\ HtonsIdle
    /\ AddrIdle
    /\ ConnIdle

\* Listen is called: i := 0
RaceListen(e) ==
    /\ raceH.pc[e] = "idle"
    /\ raceH' = [raceH EXCEPT !.pc[e] = "scan"]
    /\ UNCHANGED <<htonsVars, addrVars, connVars, dirH, fltH, lsH, muH>>

\* an iteration that lets listen fail on EBUSY
RaceOpenBusyFails(e) ==
    /\ raceH.pc[e] = "scan"
    /\ raceH.i[e] <= MaxDev
    /\ LET k == raceH.i[e]
           t == Append(raceH.tried[e], k)
       IN  IF raceH.owner[k] # Free
           THEN raceH' = [raceH EXCEPT !.pc[e] = "failed", !.tried[e] = t,
                                       !.err[e] = NewSyscallError("open", "EBUSY")]
           ELSE raceH' = [raceH EXCEPT !.pc[e] = "configure", !.tried[e] = t,
                                       !.owner[k] = e, !.dev[e] = k]
    /\ UNCHANGED <<htonsVars, addrVars, connVars, dirH, fltH, lsH, muH>>

\* an iteration that opens the same device again after EBUSY
RaceOpenRetry(e) ==
    /\ raceH.pc[e] = "scan"
    /\ raceH.i[e] <= MaxDev
    /\ LET k == raceH.i[e]
           t == IF Len(raceH.tried[e]) <= MaxDev
                THEN Append(raceH.tried[e], k) ELSE raceH.tried[e]
       IN  IF raceH.owner[k] # Free
           THEN raceH' = [raceH EXCEPT !.tried[e] = t]
           ELSE raceH' = [raceH EXCEPT !.pc[e] = "configure", !.tried[e] = t,
                                       !.owner[k] = e, !.dev[e] = k]
    /\ UNCHANGED <<htonsVars, addrVars, connVars, dirH, fltH, lsH, muH>>

\* One iteration of the loop: os.OpenFile("/dev/bpf<i>").  A device that is
\* held yields EBUSY and the loop continues with i + 1; a free device is
\* opened, or the open fails with another error (deny) and listen returns it.
RaceOpen(e) ==
    /\ raceH.pc[e] = "scan"
    /\ raceH.i[e] <= MaxDev
    /\ LET k == raceH.i[e]
           t == Append(raceH.tried[e], k)
       IN  IF raceH.owner[k] # Free
           THEN raceH' = [raceH EXCEPT !.i[e] = k + 1, !.tried[e] = t]
           ELSE \E deny \in BOOLEAN :
                IF deny
                THEN raceH' = [raceH EXCEPT !.pc[e] = "failed", !.tried[e] = t,
                                            !.err[e] = NewSyscallError("open", "EACCES")]
                ELSE raceH' = [raceH EXCEPT !.pc[e] = "configure", !.tried[e] = t,
                                            !.owner[k] = e, !.dev[e] = k]
    /\ UNCHANGED <<htonsVars, addrVars, connVars, dirH, fltH, lsH, muH>>

\* The loop ended with i > 255 and f == nil
RaceExhausted(e) ==
    /\ raceH.pc[e] = "scan"
    /\ raceH.i[e] > MaxDev
    /\ raceH' = [raceH EXCEPT !.pc[e] = "failed",
                              !.err[e] = RawErr("unable to open BPF device")]
    /\ UNCHANGED <<htonsVars, addrVars, connVars, dirH, fltH, lsH, muH>>

\* configureBPF: on an error listen returns it and leaves the file open
RaceConfigure(e) ==
    /\ raceH.pc[e] = "configure"
    /\ \E ok \in BOOLEAN :
        raceH' = IF ok THEN [raceH EXCEPT !.pc[e] = "live"]
                 ELSE [raceH EXCEPT !.pc[e] = "failed", !.err[e] = RawErr("ENXIO")]
    /\ UNCHANGED <<htonsVars, addrVars, connVars, dirH, fltH, lsH, muH>>

\* conn.Close: c.f.Close()
RaceClose(e) ==
    /\ raceH.pc[e] = "live"
    /\ raceH' = [raceH EXCEPT !.pc[e] = "closed", !.owner[raceH.dev[e]] = Free,
                              !.dev[e] = NoDev]
    /\ UNCHANGED <<htonsVars, addrVars, connVars, dirH, fltH, lsH, muH>>

\* The *os.File of a failed establishment is unreachable: its finalizer
\* closes the device at some garbage collection.
RaceFinalize(e) ==
    /\ raceH.pc[e] = "failed"
    /\ raceH.dev[e] # NoDev
    /\ raceH' = [raceH EXCEPT !.owner[raceH.dev[e]] = Free, !.dev[e] = NoDev]
    /\ UNCHANGED <<htonsVars, addrVars, connVars, dirH, fltH, lsH, muH>>

\* Another program opens a free device or closes the one it holds.
RaceForeign ==
    /\ \E k \in 0 .. MaxDev :
        /\ raceH.owner[k] \in {Free, Foreign}
        /\ raceH' = [raceH EXCEPT !.owner[k] = IF @ = Free THEN Foreign ELSE Free]
    /\ UNCHANGED <<htonsVars, addrVars, connVars, dirH, fltH, lsH, muH>>

\* The steps of the thread in listen.
RaceScan(e) == RaceOpen(e) \/ RaceExhausted(e)

RaceNext ==
    \/ \E e \in Ests : RaceListen(e)
    \/ \E e \in Ests : RaceOpen(e)
    \/ \E e \in Ests : RaceExhausted(e)
    \/ \E e \in Ests : RaceConfigure(e)
    \/ \E e \in Ests : RaceClose(e)
    \/ \E e \in Ests : RaceFinalize(e)
    \/ RaceForeign

SpecRace == RaceInit /\ [][RaceNext]_vars

\* The thread that runs listen is scheduled and each open returns.
SpecRaceFair == SpecRace /\ \A e \in Ests : WF_vars(RaceScan(e))

\* The scan of e has tried each device once at most, in increasing order.
TriedOnce(e) ==
    LET t == raceH.tried[e]
    IN  /\ Len(t) <= MaxDev + 1
        /\ \A j, k \in 1 .. Len(t) : j < k => t[j] < t[k]
        /\ \A k \in 1 .. Len(t) : t[k] \in 0 .. MaxDev

\* Every device answered busy and listen has returned.
AllBusy(e) == raceH.i[e] > MaxDev /\ raceH.pc[e] # "scan"

\* C25: the device scan ends: no device is opened twice by one scan, at
\* most one open per candidate is made, a scan that is running comes to an
\* end, and when every candidate was busy listen returns the error that no
\* device could be opened, and no Conn.
C25_ScanTerminates ==
    /\ [](\A e \in Ests :
            /\ TriedOnce(e)
            /\ AllBusy(e) =>
                /\ raceH.pc[e] = "failed"
                /\ raceH.err[e] = RawErr("unable to open BPF device")
                /\ raceH.dev[e] = NoDev
                /\ Len(raceH.tried[e]) = MaxDev + 1)
    /\ \A e \in Ests : (raceH.pc[e] = "scan") ~> (raceH.pc[e] # "scan")

C25_Witness ==
    \E e \in Ests :
        /\ AllBusy(e)
        /\ raceH.pc[e] = "failed"
        /\ raceH.tried[e] = [k \in 1 .. MaxDev + 1 |-> k - 1]
        /\ \E f \in Ests : raceH.pc[f] = "live"

\* The devices e holds.
Held(e) == {k \in 0 .. MaxDev : raceH.owner[k] = e}

\* e made an open in this step.
Opened(e) == raceH'.tried[e] # raceH.tried[e]

\* C26: with opens granted to one opener at a time, two live connections
\* never hold the same device, a connection holds exactly one device from
\* the open that succeeded until its Close and none after it, and an
\* establishment whose open finds the device taken by another establishment
\* goes on to the next device and does not fail.
C26_ExclusiveOwnership ==
    /\ [](\A e, f \in Ests :
            (e # f /\ raceH.pc[e] = "live" /\ raceH.pc[f] = "live") =>
                raceH.dev[e] # raceH.dev[f])
    /\ [](\A e \in Ests :
            /\ raceH.pc[e] \in {"configure", "live"} => Held(e) = {raceH.dev[e]}
            /\ raceH.pc[e] \in {"idle", "scan", "closed"} => Held(e) = {})
    /\ [][\A e \in Ests :
            (/\ raceH.pc[e] = "scan"
             /\ raceH.i[e] <= MaxDev
             /\ raceH.owner[raceH.i[e]] \in Ests
             /\ Opened(e)) =>
                /\ raceH'.pc[e] = "scan"
                /\ raceH'.i[e] = raceH.i[e] + 1
                /\ raceH'.owner = raceH.owner]_vars

C26_Witness ==
    \E e, f \in Ests :
        /\ raceH.pc[e] = "live"
        /\ raceH.pc[f] = "live"
        /\ raceH.tried[f] = <<0>>
        /\ raceH.tried[e] = <<0, 1>>
        /\ raceH.owner[0] = f
        /\ raceH.owner[1] = e

(***************************************************************************)
(* The read loop of the BSD driver                                         *)
(***************************************************************************)
\* The timeout the configured read deadline asks for at this moment.
WantedTimeout ==
    IF rtimeout = 0 THEN readTimeout ELSE Min(rtimeout - now, readTimeout)

\* C27: each pass of the read loop on an open device programs the device
\* read timeout with min(time left until the read deadline configured at
\* that moment, 200 ms), or 200 ms without a deadline, a value that is
\* positive and at most 200 ms, and then enters the device read; a read of
\* zero bytes starts the next pass.
C27_TimeoutFromConfiguredDeadline ==
    [][(rpc = "loop" /\ rpc' # "loop" /\ fd = "open") =>
            /\ rpc' = "enter"
            /\ rd'.sliceEnd - now = WantedTimeout
            /\ WantedTimeout > 0
            /\ WantedTimeout <= readTimeout]_vars

(***************************************************************************)
(* SpecMutex: the read deadline of a conn (packet_macos.go) under its      *)
(* mutex, with a thread in Conn.readFrom and threads in SetReadDeadline    *)
(* and SetDeadline.  A time.Time is more than one machine word: it is read *)
(* and written a word at a time, here as two words.  A thread t is at      *)
(*   "out"     not in a critical section                                   *)
(*   "locked"  after timeoutMu.Lock(), before the first word               *)
(*   "half"    between the two words                                       *)
(*   "whole"   after the second word, before timeoutMu.Unlock()            *)
(***************************************************************************)
\* Thread 1 calls ReadFrom, thread 2 SetReadDeadline, thread 3 SetDeadline.
Reader == 1
Threads == {Reader, 2, 3}

\* The calls each thread makes.
MaxCalls == 2

\* The zero time.Time.
ZeroTime == <<0, 0>>

\* The deadline that thread t sets in its n-th call; both words hold it.
DeadlineOf(t, n) == <<10 * t + n, 10 * t + n>>

MuInit ==
    /\ muH = [holder |-> 0,
              rtimeout |-> ZeroTime,
              pc |-> [t \in Threads |-> "out"],
              calls |-> [t \in Threads |-> 0],
              deadline |-> ZeroTime,
              seen |-> {}]
    /\ dirH = <<>>
    /\ fltH = <<>>
    /\ lsH = <<>>
    /\ raceH = <<>>
    /\ HtonsIdle
    /\ AddrIdle
    /\ ConnIdle

\* an entry into the critical section that does not take the mutex
MuEnterUnlocked(t) ==
    /\ muH.pc[t] = "out"
    /\ muH.calls[t] < MaxCalls
    /\ muH' = [muH EXCEPT !.pc[t] = "locked", !.calls[t] = @ + 1,
                          !.holder = IF @ = 0 THEN t ELSE @]
    /\ UNCHANGED <<htonsVars, addrVars, connVars, dirH, fltH, lsH, raceH>>

\* c.timeoutMu.Lock(): returns when no thread holds the mutex
MuLock(t) ==
    /\ muH.pc[t] = "out"
    /\ muH.calls[t] < MaxCalls
    /\ muH.holder = 0
    /\ muH' = [muH EXCEPT !.pc[t] = "locked", !.calls[t] = @ + 1, !.holder = t]
    /\ UNCHANGED <<htonsVars, addrVars, connVars, dirH, fltH, lsH, raceH>>

\* deadline := c.c.rtimeout (readFrom) or c.rtimeout = t (SetReadDeadline):
\* the first word
MuFirstWord(t) ==
    /\ muH.pc[t] = "locked"
    /\ muH' = IF t = Reader
              THEN [muH EXCEPT !.pc[t] = "half",
                               !.deadline = <<muH.rtimeout[1], 0>>]
              ELSE [muH EXCEPT !.pc[t] = "half",
                               !.rtimeout[1] = DeadlineOf(t, muH.calls[t])[1]]
    /\ UNCHANGED <<htonsVars, addrVars, connVars, dirH, fltH, lsH, raceH>>

\* the second word
MuSecondWord(t) ==
    /\ muH.pc[t] = "half"
    /\ muH' = IF t = Reader
              THEN [muH EXCEPT !.pc[t] = "whole",
                               !.deadline[2] = muH.rtimeout[2],
                               !.seen = @ \cup {<<muH.deadline[1], muH.rtimeout[2]>>}]
              ELSE [muH EXCEPT !.pc[t] = "whole",
                               !.rtimeout[2] = DeadlineOf(t, muH.calls[t])[2]]
    /\ UNCHANGED <<htonsVars, addrVars, connVars, dirH, fltH, lsH, raceH>>

\* c.timeoutMu.Unlock()
MuUnlock(t) ==
    /\ muH.pc[t] = "whole"
    /\ muH' = [muH EXCEPT !.pc[t] = "out", !.holder = IF @ = t THEN 0 ELSE @]
    /\ UNCHANGED <<htonsVars, addrVars, connVars, dirH, fltH, lsH, raceH>>

MuNext ==
    \/ \E t \in Threads : MuLock(t)
    \/ \E t \in Threads : MuFirstWord(t)
    \/ \E t \in Threads : MuSecondWord(t)
    \/ \E t \in Threads : MuUnlock(t)

SpecMutex == MuInit /\ [][MuNext]_vars

\* t is between its Lock and its Unlock.
InSection(t) == muH.pc[t] \in {"locked", "half", "whole"}

\* The values complete set operations store, and the value before any.
WholeDeadlines ==
    {ZeroTime} \cup {DeadlineOf(t, n) : t \in Threads \ {Reader}, n \in 1 .. MaxCalls}

\* C28: every read and every write of the read deadline is made by the
\* thread that holds the deadline mutex, so two threads are never at it at
\* once, and the deadline a ReadFrom takes is the unset value or the value
\* of one complete set operation.
C28_DeadlineUnderMutex ==
    /\ \A t \in Threads : InSection(t) => muH.holder = t
    /\ \A t, u \in Threads : (InSection(t) /\ InSection(u)) => t = u
    /\ muH.seen \subseteq WholeDeadlines
    /\ muH.pc[Reader] = "whole" => muH.deadline \in WholeDeadlines

C28_Witness ==
    /\ muH.pc[Reader] = "whole"
    /\ muH.deadline = DeadlineOf(3, 1)
    /\ muH.calls[2] = 1
    /\ muH.pc[2] = "out"
    /\ Cardinality(muH.seen) = 2

(***************************************************************************)
(* What a failed establishment leaves behind                               *)
(***************************************************************************)
\* C29: a Listen that fails after it opened the socket or the capture
\* device closes it before it returns: after a failed Listen no descriptor
\* that the call opened is open, on any driver.
C29_FailedListenClosesPrimitive ==
    (LsDone /\ ~IsNil(lsH.res.err)) =>
        /\ lsH.res.fd # "open"
        /\ OpensPrimitive(lsH.res.klog) /\ lsH.res.fd # "none" =>
            lsH.res.klog[Len(lsH.res.klog)] = "close"

(***************************************************************************)
(* The receive buffer of the BSD driver                                    *)
(***************************************************************************)
\* C30: on the BSD driver, whatever positive byte count up to the device
\* buffer length the device read returns, ReadFrom slices the receive
\* buffer inside its length: header length + 12 and header length + n are
\* at most the buffer length, and the read does not fault.
C30_ReadIndexesInsideBuffer ==
    (/\ IsBSD
     /\ last.op = "ReadFrom"
     /\ last.devN >= 1
     /\ last.devN <= conn.buflen) =>
        /\ bpfLen + 12 <= conn.buflen
        /\ bpfLen + last.devN <= conn.buflen
        /\ ~last.paniced

(***************************************************************************)
(* The shape of the programs handed to the capture device                  *)
(***************************************************************************)
\* Every jump of prog lands on an instruction of prog.
JumpsInside(prog) ==
    \A k \in 1 .. Len(prog) :
        prog[k].Code = "jeq" =>
            /\ k + 1 + prog[k].Jt \in 1 .. Len(prog)
            /\ k + 1 + prog[k].Jf \in 1 .. Len(prog)

\* Every path of prog from instruction pc on ends in a return.
RECURSIVE EndsInReturn(_, _)
EndsInReturn(prog, pc) ==
    IF pc > Len(prog)
    THEN FALSE
    ELSE CASE prog[pc].Code = "ret" -> TRUE
           [] prog[pc].Code = "jeq" ->
                /\ EndsInReturn(prog, pc + 1 + prog[pc].Jt)
                /\ EndsInReturn(prog, pc + 1 + prog[pc].Jf)
           [] OTHER -> EndsInReturn(prog, pc + 1)

WellFormed(prog) == JumpsInside(prog) /\ EndsInReturn(prog, 1)

\* C31: every program the BSD driver hands to the device, the one of the
\* configuration and the one SetBPF builds for any caller program, the
\* empty one included, is well formed: each jump lands inside the program
\* and each path ends in a return.
C31_InstalledProgramsWellFormed ==
    fltH # <<>> =>
        /\ WellFormed(InterfaceProg(fltH.proto, fltH.mtu))
        /\ fltH.pc = "set" => WellFormed(fltH.set.insns)

====
